---- MODULE Spec2Model ----
(***************************************************************************)
(* A model of the exchain JSON-RPC backend (app/rpc/backend/backend.go):   *)
(* the cache-first / authoritative-fallback read accessors of              *)
(* EthermintBackend and the bloom-bits handler pool started by             *)
(* StartBloomHandlers.                                                     *)
(*                                                                         *)
(* The local cache (watcher.Querier / watcher.Watcher) and the             *)
(* authoritative node (clientCtx.Client, clientCtx.Query) are the          *)
(* environment: what each of their calls answers is an input of the        *)
(* accessor that makes the call.                                           *)
(***************************************************************************)
EXTENDS Integers, Sequences, FiniteSets, TLC

VARIABLES
    cacheBlocks,    \* heights of the blocks the watcher database holds
    cacheReceipts,  \* tx hash -> receipt held by the watcher database
    last,           \* the accessor call that returned last, with what it returned
    rateLimiters,   \* b.rateLimiters: the registry New was given
    hdrByHash,      \* height -> blooms of the headers HeaderByHash has returned for the block
    hdrByNumber,    \* height -> blooms of the headers HeaderByNumber has returned for the block
    closeBloomHandler, \* b.closeBloomHandler: "open" or "closed"
    wpc,            \* worker -> position in the handler goroutine
    wreq,           \* worker -> reply channel received from b.bloomRequests
    wtask,          \* worker -> the *bloombits.Retrieval it holds
    widx,           \* worker -> index of the section the range loop is at
    spc,            \* session -> position in MatcherSession.Multiplex
    schan,          \* session -> its current reply channel
    sdone,          \* session -> number of requests it has finished
    returned,       \* session -> the task it received back last (result := <-request)
    chans,          \* reply channel -> who received it and what was written on it
    nextChan,       \* number of reply channels made so far
    goroutinePool,  \* the channel goroutinePool: made or nil, its capacity and length
    globalWG,       \* the counter of globalWG
    epc             \* export writer -> position in its syncWrite function

resolverVars == <<cacheBlocks, cacheReceipts, last, hdrByHash, hdrByNumber>>
bloomVars == <<closeBloomHandler, wpc, wreq, wtask, widx, spc, schan, sdone, returned, chans, nextChan>>
limiterVars == <<rateLimiters>>
exportVars == <<goroutinePool, globalWG, epc>>
vars == <<cacheBlocks, cacheReceipts, last, hdrByHash, hdrByNumber, rateLimiters,
          closeBloomHandler, wpc, wreq, wtask, widx, spc, schan, sdone, returned, chans, nextChan,
          goroutinePool, globalWG, epc>>

(***************************************************************************)
(* Bounds of the model.                                                    *)
(***************************************************************************)
\* the chain holds the blocks 1..MaxHeight
MaxHeight == 3
\* every block holds TxPerBlock transactions
TxPerBlock == 2
\* uint64 / int64 are modelled WordBits wide
WordBits == 5
\* the handler goroutines StartBloomHandlers starts (evmtypes.BloomServiceThreads)
NumWorkers == 2
\* the Multiplex goroutines ServiceFilter starts (evmtypes.BloomFilterThreads)
NumMux == 2
\* the retrievals one Multiplex goroutine asks for before its session ends
MaxRequests == 1
\* the sections of one retrieval task
MaxSections == 2
\* the sectionSize handed to StartBloomHandlers
SectionSize == 2

\* the most entries a listing of the transaction pool holds
MaxPool == 2

\* the largest sectionSize StartBloomHandlers is started with
MaxSectionSize == 16

\* the most gas a transaction uses
MaxGas == 3

\* the most CPUs runtime.NumCPU() reports
MaxCPU == 2
\* the slots of goroutinePool per CPU above the first (64 in line 26)
SlotsPerCPU == 2
\* the goroutines the export starts on the syncWrite functions
NumWriters == 3

(***************************************************************************)
(* Integers of fixed width: hexutil.Uint64(x), uint64(x), int64(x).        *)
(***************************************************************************)
RECURSIVE Pow2(_)
Pow2(n) == IF n = 0 THEN 1 ELSE 2 * Pow2(n - 1)

WordMod == Pow2(WordBits)

\* uint64(x) of a signed x: the two's complement wrap-around
ToUint64(x) == x % WordMod

\* int64(x) of an unsigned x
ToInt64(x) == IF x >= WordMod \div 2 THEN x - WordMod ELSE x

(***************************************************************************)
(* The chain the authoritative source serves.                              *)
(***************************************************************************)
Heights == 1..MaxHeight

\* common.Hash{}
ZeroHash == 0

HashOf(h) == 100 + h

Hashes == {HashOf(h) : h \in Heights}

HeightOfHash(hash) == CHOOSE h \in Heights : HashOf(h) = hash

\* the bloom the evm module stored for the block, never the empty bloom
BloomOf(h) == 200 + h

\* the bloom field of a header built by EthHeaderFromTendermint, before the backfill
EmptyBloom == 0

TxsOf(h) == [i \in 1..TxPerBlock |-> (h - 1) * TxPerBlock + i]

TxIds == 1..(MaxHeight * TxPerBlock)

TxHeight(tx) == ((tx - 1) \div TxPerBlock) + 1

\* tx.Index, counted from 0
TxIndex(tx) == (tx - 1) % TxPerBlock

(***************************************************************************)
(* What an accessor returns.  q is the sequence of the calls it made to    *)
(* the two sources, fail the authoritative step that failed ("" if none).  *)
(***************************************************************************)
NoErr == "nil"

Q(src, kind, arg, item, ok) ==
    [src |-> src, kind |-> kind, arg |-> arg, item |-> item, ok |-> ok]

Out(res, isNil, err, q, fail) ==
    [res |-> res, isNil |-> isNil, err |-> err, panic |-> FALSE, q |-> q, fail |-> fail]

Panic(q, fail) ==
    [res |-> 0, isNil |-> TRUE, err |-> NoErr, panic |-> TRUE, q |-> q, fail |-> fail]

TipItem == <<"tip", 0>>

\* *watcher.EthBlock when src = "cache", map[string]interface{} when src = "auth"
BlockRec(h, src) ==
    [height |-> h, hash |-> HashOf(h), bloom |-> BloomOf(h), txs |-> TxsOf(h), src |-> src]

\* the block the watcher saved for height h: a projection of the chain's block,
\* with the bloom the evm module stored for it
CacheBlock(h) == BlockRec(h, "cache")

HeaderRec(h, bloom) == [height |-> h, hash |-> HashOf(h), bloom |-> bloom]

(***************************************************************************)
(* The two sources.                                                        *)
(***************************************************************************)
\* wrappedBackend.GetBlockByNumber: the watcher database holds the block
CacheHasNumber(cache, e, n) == e.cacheUp /\ n \in cache

\* wrappedBackend.GetBlockByHash
CacheHasHash(cache, e, hash) == e.cacheUp /\ \E h \in cache : HashOf(h) = hash

\* clientCtx.Client.Block(&height)
ClientBlock(e, height) == e.blockUp /\ height \in Heights

\* clientCtx.Query("custom/evm/hashToHeight/<hash>")
QueryHashToHeight(e, hash) == e.queryUp /\ hash \in Hashes

\* clientCtx.Query("custom/evm/heightToHash/<height>")
QueryHeightToHash(e, height) == e.queryUp /\ height \in Heights

(***************************************************************************)
(* LatestBlockNumber and BlockNumber.                                      *)
(***************************************************************************)
LatestBlockNumber(e) ==
    IF e.at.ok THEN [v |-> e.at.v, err |-> NoErr] ELSE [v |-> 0, err |-> "BlockchainInfo"]

BlockNumber(e) ==
    IF e.ct.ok
    THEN Out(IF e.ct.v > 0 THEN e.ct.v - 1 ELSE e.ct.v, FALSE, NoErr,
             <<Q("cache", "GetLatestBlockNumber", 0, TipItem, TRUE)>>, "")
    ELSE LET q1 == <<Q("cache", "GetLatestBlockNumber", 0, TipItem, FALSE)>>
             l == LatestBlockNumber(e)
             q2 == q1 \o <<Q("auth", "BlockchainInfo", 0, TipItem, l.err = NoErr)>>
         IN IF l.err # NoErr
            THEN Out(0, FALSE, l.err, q2, "BlockchainInfo")
            ELSE Out(ToUint64(IF l.v > 0 THEN l.v - 1 ELSE l.v), FALSE, NoErr, q2, "")

(***************************************************************************)
(* GetBlockByNumber and GetBlockByHash.                                    *)
(***************************************************************************)
\* rpctypes.EthBlockFromTendermint(b.clientCtx, resBlock.Block, fullTx)
EthBlockFromTendermint(e, h, q) ==
    IF e.convOK
    THEN Out(BlockRec(h, "auth"), FALSE, NoErr, q, "")
    ELSE Out(0, TRUE, "EthBlockFromTendermint", q, "EthBlockFromTendermint")

\* GetBlockByNumber resolving the sentinel before it asks the cache, as HeaderByNumber does
GetBlockByNumberResolvesFirst(blockNum, cache, e) ==
    LET item == <<"num", blockNum>>
        num == IF blockNum <= 0 THEN BlockNumber(e) ELSE Out(0, FALSE, NoErr, <<>>, "")
    IN IF num.err # NoErr
       THEN Out(0, TRUE, num.err, num.q, num.fail)
       ELSE LET height == IF blockNum <= 0 THEN ToInt64(num.res) ELSE blockNum
                hit == CacheHasNumber(cache, e, ToUint64(height))
                q1 == num.q \o <<Q("cache", "GetBlockByNumber", ToUint64(height), item, hit)>>
                ok == ClientBlock(e, height)
                q2 == q1 \o <<Q("auth", "Block", height, item, ok)>>
            IN IF hit
               THEN Out(CacheBlock(ToUint64(height)), FALSE, NoErr, q1, "")
               ELSE IF ~ok
               THEN Out(0, TRUE, NoErr, q2, "Block")
               ELSE EthBlockFromTendermint(e, height, q2)

GetBlockByNumber(blockNum, cache, e) ==
    LET item == <<"num", blockNum>>
        hit == CacheHasNumber(cache, e, ToUint64(blockNum))
        q1 == <<Q("cache", "GetBlockByNumber", ToUint64(blockNum), item, hit)>>
    IN IF hit
       THEN Out(CacheBlock(ToUint64(blockNum)), FALSE, NoErr, q1, "")
       ELSE LET num == IF blockNum <= 0 THEN BlockNumber(e) ELSE Out(0, FALSE, NoErr, <<>>, "")
                q2 == q1 \o num.q
            IN IF num.err # NoErr
               THEN Out(0, TRUE, num.err, q2, num.fail)
               ELSE LET height == IF blockNum <= 0 THEN ToInt64(num.res) ELSE blockNum
                        ok == ClientBlock(e, height)
                        q3 == q2 \o <<Q("auth", "Block", height, item, ok)>>
                    IN IF ~ok
                       THEN Out(0, TRUE, NoErr, q3, "Block")
                       ELSE EthBlockFromTendermint(e, height, q3)

GetBlockByHash(hash, cache, e) ==
    LET item == <<"hash", hash>>
        hit == CacheHasHash(cache, e, hash)
        q1 == <<Q("cache", "GetBlockByHash", hash, item, hit)>>
    IN IF hit
       THEN Out(CacheBlock(HeightOfHash(hash)), FALSE, NoErr, q1, "")
       ELSE LET qok == QueryHashToHeight(e, hash)
                q2 == q1 \o <<Q("auth", "QueryHashToHeight", hash, item, qok)>>
            IN IF ~qok
               THEN Out(0, TRUE, "Query", q2, "Query")
               ELSE IF ~e.decodeOK
               THEN Out(0, TRUE, "UnmarshalJSON", q2, "UnmarshalJSON")
               ELSE LET number == HeightOfHash(hash)
                        ok == ClientBlock(e, number)
                        q3 == q2 \o <<Q("auth", "Block", number, item, ok)>>
                    IN IF ~ok
                       THEN Out(0, TRUE, NoErr, q3, "Block")
                       ELSE EthBlockFromTendermint(e, number, q3)

(***************************************************************************)
(* HeaderByNumber and HeaderByHash.                                        *)
(***************************************************************************)
\* HeaderWithBloom without the merge of the queried bloom into the header
HeaderWithoutBloom(e, h, item, q) ==
    LET bok == e.bloom # "err"
        q2 == q \o <<Q("auth", "QueryBloom", h, item, bok)>>
    IN IF ~bok
       THEN Out(0, TRUE, "Query", q2, "QueryBloom")
       ELSE IF e.bloom = "undecodable"
       THEN Panic(q2, "MustUnmarshalJSON")
       ELSE Out(HeaderRec(h, EmptyBloom), FALSE, NoErr, q2, "")

\* lines 174-184 and 204-214: the bloom-for-height query, its decoding and
\* the header with the bloom merged in
\* HeaderWithBloom decoding the bloom payload with UnmarshalJSON and returning its error
HeaderWithBloomDecodeErr(e, h, item, q) ==
    LET bok == e.bloom # "err"
        q2 == q \o <<Q("auth", "QueryBloom", h, item, bok)>>
    IN IF ~bok
       THEN Out(0, TRUE, "Query", q2, "QueryBloom")
       ELSE IF e.bloom = "undecodable"
       THEN Out(0, TRUE, "UnmarshalJSON", q2, "UnmarshalJSON")
       ELSE Out(HeaderRec(h, BloomOf(h)), FALSE, NoErr, q2, "")

HeaderWithBloom(e, h, item, q) ==
    LET bok == e.bloom # "err"
        q2 == q \o <<Q("auth", "QueryBloom", h, item, bok)>>
    IN IF ~bok
       THEN Out(0, TRUE, "Query", q2, "QueryBloom")
       ELSE IF e.bloom = "undecodable"
       THEN Panic(q2, "MustUnmarshalJSON")
       ELSE Out(HeaderRec(h, BloomOf(h)), FALSE, NoErr, q2, "")

HeaderByNumber(blockNum, cache, e) ==
    LET item == <<"num", blockNum>>
        num == IF blockNum <= 0 THEN BlockNumber(e) ELSE Out(0, FALSE, NoErr, <<>>, "")
    IN IF num.err # NoErr
       THEN Out(0, TRUE, num.err, num.q, num.fail)
       ELSE LET height == IF blockNum <= 0 THEN ToInt64(num.res) ELSE blockNum
                hit == CacheHasNumber(cache, e, ToUint64(height))
                q1 == num.q \o <<Q("cache", "GetBlockByNumber", ToUint64(height), item, hit)>>
            IN IF hit
               THEN Out(HeaderRec(height, CacheBlock(height).bloom), FALSE, NoErr, q1, "")
               ELSE LET ok == ClientBlock(e, height)
                        q2 == q1 \o <<Q("auth", "Block", height, item, ok)>>
                    IN IF ~ok
                       THEN Out(0, TRUE, "Block", q2, "Block")
                       ELSE HeaderWithBloom(e, height, item, q2)

HeaderByHash(blockHash, e) ==
    LET item == <<"hash", blockHash>>
        qok == QueryHashToHeight(e, blockHash)
        q1 == <<Q("auth", "QueryHashToHeight", blockHash, item, qok)>>
    IN IF ~qok
       THEN Out(0, TRUE, "Query", q1, "Query")
       ELSE IF ~e.decodeOK
       THEN Out(0, TRUE, "UnmarshalJSON", q1, "UnmarshalJSON")
       ELSE LET number == HeightOfHash(blockHash)
                ok == ClientBlock(e, number)
                q2 == q1 \o <<Q("auth", "Block", number, item, ok)>>
            IN IF ~ok
               THEN Out(0, TRUE, "Block", q2, "Block")
               ELSE HeaderWithBloom(e, number, item, q2)

(***************************************************************************)
(* GetBlockHashByHeight.                                                   *)
(***************************************************************************)
\* GetBlockHashByHeight asking the authoritative source before the cache
GetBlockHashByHeightAuthFirst(height, cache, e) ==
    LET item == <<"num", height>>
        qok == QueryHeightToHash(e, height)
        q1 == <<Q("auth", "QueryHeightToHash", height, item, qok)>>
        hit == CacheHasNumber(cache, e, ToUint64(height))
        q2 == q1 \o <<Q("cache", "GetBlockHashByNumber", ToUint64(height), item, hit)>>
    IN IF qok
       THEN Out(HashOf(height), FALSE, NoErr, q1, "")
       ELSE IF hit
       THEN Out(HashOf(ToUint64(height)), FALSE, NoErr, q2, "")
       ELSE Out(ZeroHash, FALSE, "Query", q2, "Query")

GetBlockHashByHeight(height, cache, e) ==
    LET item == <<"num", height>>
        hit == CacheHasNumber(cache, e, ToUint64(height))
        q1 == <<Q("cache", "GetBlockHashByNumber", ToUint64(height), item, hit)>>
    IN IF hit
       THEN Out(HashOf(ToUint64(height)), FALSE, NoErr, q1, "")
       ELSE LET qok == QueryHeightToHash(e, height)
                q2 == q1 \o <<Q("auth", "QueryHeightToHash", height, item, qok)>>
            IN IF ~qok
               THEN Out(ZeroHash, FALSE, "Query", q2, "Query")
               ELSE Out(HashOf(height), FALSE, NoErr, q2, "")

(***************************************************************************)
(* GetTransactionLogs and GetLogs.                                         *)
(***************************************************************************)
\* the execution-result blobs a transaction record can carry
Blobs == {"logs", "nologs", "undecodable"}

\* evmtypes.DecodeResultData(txRes.TxResult.Data)
DecodeResultData(blob, tx) ==
    IF blob = "undecodable" THEN [err |-> TRUE, logs |-> <<>>]
    ELSE [err |-> FALSE, logs |-> IF blob = "logs" THEN <<tx>> ELSE <<>>]

\* clientCtx.Client.Tx(txHash.Bytes(), ...)
ClientTx(e, txHash) == e.txUp /\ txHash \in TxIds

\* GetTransactionLogs reporting a transaction without logs as an error
GetTransactionLogsNoLogsErr(txHash, e) ==
    LET item == <<"tx", txHash>>
        ok == ClientTx(e, txHash)
        q1 == <<Q("auth", "Tx", txHash, item, ok)>>
    IN IF ~ok
       THEN Out(<<>>, TRUE, "Tx", q1, "Tx")
       ELSE LET execRes == DecodeResultData(e.blob, txHash)
            IN IF execRes.err \/ execRes.logs = <<>>
               THEN Out(<<>>, TRUE, "DecodeResultData", q1, "DecodeResultData")
               ELSE Out(execRes.logs, FALSE, NoErr, q1, "")

GetTransactionLogs(txHash, e) ==
    LET item == <<"tx", txHash>>
        ok == ClientTx(e, txHash)
        q1 == <<Q("auth", "Tx", txHash, item, ok)>>
    IN IF ~ok
       THEN Out(<<>>, TRUE, "Tx", q1, "Tx")
       ELSE LET execRes == DecodeResultData(e.blob, txHash)
            IN IF execRes.err
               THEN Out(<<>>, TRUE, "DecodeResultData", q1, "DecodeResultData")
               ELSE Out(execRes.logs, FALSE, NoErr, q1, "")

NoReceipt == [has |-> FALSE, logs |-> <<>>]

LogsOut(res, isNil, err, q, fail, rc, commits) ==
    [res |-> res, isNil |-> isNil, err |-> err, panic |-> FALSE, q |-> q, fail |-> fail,
     receipts |-> rc, commits |-> commits]

\* tx.TxResult.GasUsed of a transaction of the chain
GasUsed(tx) == (tx % MaxGas) + 1

\* rpctypes.GetBlockCumulativeGas(codec, block, idx): the gas of the
\* transactions of the block before index idx
RECURSIVE GetBlockCumulativeGas(_, _)
GetBlockCumulativeGas(height, idx) ==
    IF idx = 0 THEN 0
    ELSE (GetBlockCumulativeGas(height, idx - 1) + GasUsed(TxsOf(height)[idx])) % WordMod

\* the cumulative gas without the gas of the transaction itself
CumulativeGasPrecedingOnly(tx) ==
    IF TxIndex(tx) # 0 THEN GetBlockCumulativeGas(TxHeight(tx), TxIndex(tx)) ELSE 0

\* lines 366-369: cumulativeGasUsed
CumulativeGasUsed(tx) ==
    LET own == GasUsed(tx) % WordMod
    IN IF TxIndex(tx) # 0
       THEN (own + GetBlockCumulativeGas(TxHeight(tx), TxIndex(tx))) % WordMod
       ELSE own

\* TxNotFound handing back the logs gathered so far
TxNotFoundPartial(blockLogs, rc, q, commits) ==
    LogsOut(blockLogs, FALSE, NoErr, q, "Tx", rc, commits)

\* TxNotFound taking back the receipts the call has committed
TxNotFoundRollsBack(blockLogs, rc, q, commits) ==
    LogsOut(<<>>, TRUE, NoErr, q, "Tx",
            [t \in DOMAIN rc |->
                IF \E j \in 1..Len(commits) : commits[j].tx = t THEN NoReceipt ELSE rc[t]],
            commits)

\* lines 347-350: the transaction fetch failed, "Return nil for transaction when not found"
TxNotFound(blockLogs, rc, q, commits) ==
    LogsOut(<<>>, TRUE, NoErr, q, "Tx", rc, commits)

\* lines 339-394: the loop over the block's transaction hashes, from the i-th on
RECURSIVE GetLogsLoop(_, _, _, _, _, _, _)
GetLogsLoop(txHashes, i, blockLogs, rc, q, commits, e) ==
    IF i > Len(txHashes)
    THEN LogsOut(blockLogs, FALSE, NoErr, q, "", rc, commits)
    ELSE LET txHash == txHashes[i]
             item == <<"tx", txHash>>
             hit == e.cacheUp /\ rc[txHash].has
             q1 == q \o <<Q("cache", "MustGetTransactionReceipt", txHash, item, hit)>>
             te == e.txe[i]
         IN IF hit
            THEN GetLogsLoop(txHashes, i + 1, Append(blockLogs, rc[txHash].logs), rc, q1, commits, e)
            ELSE LET q2 == q1 \o <<Q("auth", "Tx", txHash, item, te.step # "txErr")>>
                     q3 == q2 \o <<Q("auth", "Block", TxHeight(txHash), item, te.step # "blockErr")>>
                 IN IF te.step = "txErr"
                    THEN TxNotFound(blockLogs, rc, q2, commits)
                    ELSE IF te.step = "blockErr"
                    THEN LogsOut(<<>>, TRUE, "Block", q3, "Block", rc, commits)
                    ELSE IF te.step = "rawErr"
                    THEN LogsOut(<<>>, TRUE, "RawTxToEthTx", q3, "RawTxToEthTx", rc, commits)
                    ELSE LET data == DecodeResultData(te.blob, txHash)
                             status == IF data.err THEN 0 ELSE IF te.isOK THEN 1 ELSE 0
                             rc2 == [rc EXCEPT ![txHash] = [has |-> TRUE, logs |-> data.logs]]
                             cm == [tx |-> txHash, status |-> status, logs |-> data.logs,
                                    index |-> TxIndex(txHash), at |-> Len(blockLogs),
                                    cumulativeGasUsed |-> CumulativeGasUsed(txHash),
                                    gasUsed |-> GasUsed(txHash) % WordMod]
                         IN GetLogsLoop(txHashes, i + 1, Append(blockLogs, data.logs), rc2, q3,
                                        Append(commits, cm), e)

GetLogs(blockHash, cache, rc, e) ==
    LET resBlock == GetBlockByHash(blockHash, cache, e)
    IN IF resBlock.err # NoErr
       THEN LogsOut(<<>>, TRUE, resBlock.err, resBlock.q, resBlock.fail, rc, <<>>)
       ELSE IF resBlock.isNil
       \* resBlock.(map[string]interface{}) on a nil interface value
       THEN [LogsOut(<<>>, TRUE, NoErr, resBlock.q, resBlock.fail, rc, <<>>) EXCEPT !.panic = TRUE]
       ELSE GetLogsLoop(resBlock.res.txs, 1, <<>>, rc, resBlock.q, <<>>, e)

(***************************************************************************)
(* The pending-transaction views.  A pool entry is an EVM transaction, a   *)
(* transaction of another module that shares the pool, or an EVM           *)
(* transaction NewTransaction cannot convert.                              *)
(***************************************************************************)
PoolKinds == {"evm", "nonevm", "unconvertible"}

\* the listings of the pool, an entry being known by its place and its kind
PoolListings ==
    UNION {[1..n -> PoolKinds] : n \in 0..MaxPool}

\* rpctypes.RawTxToEthTx succeeds on the entries that are EVM transactions
RawTxToEthTx(kind) == kind # "nonevm"

\* rpctypes.NewTransaction
NewTransaction(kind) == kind = "evm"

\* the nil element of a []*rpctypes.Transaction
NilTx == [tx |-> 0, isNil |-> TRUE]

\* the *rpctypes.Transaction of the i-th entry of the listing
RpcTx(i) == [tx |-> i, isNil |-> FALSE]

\* lines 243-257 and 285-299: the loop over the listing, appending to transactions
RECURSIVE PendingLoop(_, _, _, _)
PendingLoop(txs, i, transactions, q) ==
    IF i > Len(txs)
    THEN Out(transactions, FALSE, NoErr, q, "")
    ELSE IF ~RawTxToEthTx(txs[i])
    THEN PendingLoop(txs, i + 1, transactions, q)
    ELSE IF ~NewTransaction(txs[i])
    THEN Out(<<>>, TRUE, "NewTransaction", q, "NewTransaction")
    ELSE PendingLoop(txs, i + 1, Append(transactions, RpcTx(i)), q)

PendingTransactions(e) ==
    LET q == <<Q("auth", "UnconfirmedTxs", 0, <<"pool", 0>>, e.ok)>>
    IN IF ~e.ok
       THEN Out(<<>>, TRUE, "UnconfirmedTxs", q, "UnconfirmedTxs")
       ELSE PendingLoop(e.txs, 1, <<>>, q)

\* line 284: make([]*rpctypes.Transaction, len(result.Txs)), a list of
\* len(result.Txs) nil elements
MakeLen(n) == [i \in 1..n |-> NilTx]

UserPendingTransactions(limit, e) ==
    LET q == <<Q("auth", "UserUnconfirmedTxs", limit, <<"pool", 0>>, e.ok)>>
    IN IF ~e.ok
       THEN Out(<<>>, TRUE, "UserUnconfirmedTxs", q, "UserUnconfirmedTxs")
       ELSE PendingLoop(e.txs, 1, MakeLen(Len(e.txs)), q)

PendingTransactionsByHash(target, e) ==
    LET q == <<Q("auth", "GetUnconfirmedTxByHash", target, <<"pool", target>>, e.ok)>>
    IN IF ~e.ok
       THEN Out(NilTx, TRUE, "GetUnconfirmedTxByHash", q, "GetUnconfirmedTxByHash")
       ELSE IF ~RawTxToEthTx(e.kind)
       THEN Out(NilTx, TRUE, "RawTxToEthTx", q, "RawTxToEthTx")
       ELSE IF ~NewTransaction(e.kind)
       THEN Out(NilTx, TRUE, "NewTransaction", q, "NewTransaction")
       ELSE Out(RpcTx(target), FALSE, NoErr, q, "")

\* what the pool answers to a listing: an error, or the entries
PoolEnvs ==
    {[ok |-> FALSE, txs |-> <<>>]} \cup {[ok |-> TRUE, txs |-> l] : l \in PoolListings}

\* what the pool answers to a lookup by hash: an error, or the entry
EntryEnvs ==
    {[ok |-> FALSE, kind |-> "evm"]} \cup {[ok |-> TRUE, kind |-> k] : k \in PoolKinds}

(***************************************************************************)
(* BloomStatus.                                                            *)
(***************************************************************************)
\* evmtypes.BloomBitsBlocks, the size of a section of the bloom index
BloomBitsBlocks == SectionSize

\* BloomStatus reading the local indexer in every deployment
BloomStatusLocalOnly(rest, e) ==
    Out(<<BloomBitsBlocks, e.stored>>, FALSE, NoErr, <<>>, "")

\* lines 401-416: sections starts at 0; a failed query leaves res empty and
\* is logged, json.Unmarshal of an empty or malformed payload fails, is
\* logged and leaves sections as it was
BloomStatus(rest, e) ==
    IF rest
    THEN LET q == <<Q("auth", "QuerySection", 0, <<"sections", 0>>, e.queryUp)>>
             decoded == e.queryUp /\ e.payload = "ok"
             sections == IF decoded THEN e.answer ELSE 0
             fail == IF ~e.queryUp THEN "QuerySection"
                     ELSE IF ~decoded THEN "Unmarshal" ELSE ""
         IN Out(<<BloomBitsBlocks, sections>>, FALSE, NoErr, q, fail)
    ELSE Out(<<BloomBitsBlocks, e.stored>>, FALSE, NoErr, <<>>, "")

\* what the section-count query answers and what the local indexer stores;
\* the answers of the deployment that is not asked are left at their defaults
StatusEnvs ==
    {e \in [queryUp : BOOLEAN, payload : {"ok", "undecodable"},
            answer : 0..MaxSections, stored : 0..MaxSections] :
        /\ ~e.queryUp => e.payload = "ok"
        /\ (~e.queryUp \/ e.payload # "ok") => e.answer = MaxSections}

(***************************************************************************)
(* The answers of the two sources, as inputs of the accessors.  An answer  *)
(* the accessor never asks for is left at its default.                     *)
(***************************************************************************)
\* what wrappedBackend.GetLatestBlockNumber answers: an error or a uint64
CacheTipResps ==
    {[ok |-> FALSE, v |-> 0]} \cup {[ok |-> TRUE, v |-> t] : t \in 0..(MaxHeight + 1)}

\* what BlockchainInfo answers: an error or LastHeight, an int64
AuthTipResps ==
    {[ok |-> FALSE, v |-> 0]} \cup {[ok |-> TRUE, v |-> t] : t \in (0 - 1)..(MaxHeight + 1)}

\* the authoritative answer is asked for only when the cache fails
TipEnvs ==
    {t \in [ct : CacheTipResps, at : AuthTipResps] : t.ct.ok => ~t.at.ok}

NoTipEnv == [ct |-> [ok |-> FALSE, v |-> 0], at |-> [ok |-> FALSE, v |-> 0]]

\* BlockNumber is called only for the sentinel heights
TipEnvsFor(blockNum) == IF blockNum <= 0 THEN TipEnvs ELSE {NoTipEnv}

BlockNums == (0 - 1)..(MaxHeight + 1)

\* the hashes of the chain's blocks and one hash no block has
HashArgs == Hashes \cup {HashOf(0)}

\* the hash-to-height query, the decoding of its payload, the block fetch
\* and the conversion of the block: each is reached only if the ones before succeed
ChainEnvs ==
    {c \in [queryUp : BOOLEAN, decodeOK : BOOLEAN, blockUp : BOOLEAN, convOK : BOOLEAN] :
        /\ ~c.queryUp => c.decodeOK
        /\ ~c.decodeOK => c.blockUp
        /\ ~c.blockUp => c.convOK}

BloomResps == {"ok", "err", "undecodable"}

\* one transaction of GetLogs' loop: the step of its reconstruction that
\* fails, or "ok" with the execution result the node reports
TxEnvs ==
    {[step |-> st, isOK |-> TRUE, blob |-> "logs"] : st \in {"txErr", "blockErr", "rawErr"}}
    \cup [step : {"ok"}, isOK : BOOLEAN, blob : Blobs]

NoTxEnv == [step |-> "ok", isOK |-> TRUE, blob |-> "logs"]

\* the answers for a transaction whose receipt the cache hands out, and for
\* the transactions of a block that was not resolved, are left at NoTxEnv
TxEnvsUsed(txe, txs, rc, cacheUp, resolved) ==
    \A i \in 1..TxPerBlock :
        (~resolved \/ (cacheUp /\ rc[txs[i]].has)) => txe[i] = NoTxEnv

\* the blocks whose logs are requested: block 1 and a block no source has
LogHashes == {HashOf(1), HashOf(0)}

\* the transactions whose logs are requested, and one hash no transaction has
LogTxs == {TxsOf(1)[i] : i \in 1..TxPerBlock} \cup {0}

NoCall == [op |-> "none", arg |-> 0, out |-> Out(0, TRUE, NoErr, <<>>, "")]

\* a call that has returned: its arguments, the answers it was given, the
\* cache as it was when the call began, and what it returned
Call(op, arg, e, cache, rc, out) ==
    [op |-> op, arg |-> arg, e |-> e, cache |-> cache, rc |-> rc, out |-> out]

(***************************************************************************)
(* The accessor calls.  The caller makes one call at a time.               *)
(***************************************************************************)
BlockNumberCall ==
    /\ last = NoCall
    /\ \E e \in TipEnvs :
        last' = Call("BlockNumber", 0, e, cacheBlocks, cacheReceipts, BlockNumber(e))
    /\ UNCHANGED <<cacheBlocks, cacheReceipts, hdrByHash, hdrByNumber>>
    /\ UNCHANGED bloomVars
    /\ UNCHANGED limiterVars
    /\ UNCHANGED exportVars

GetBlockByNumberCall ==
    /\ last = NoCall
    /\ \E blockNum \in BlockNums, c \in BOOLEAN, b \in BOOLEAN, k \in BOOLEAN :
        \E t \in TipEnvsFor(blockNum) :
          LET e == [cacheUp |-> c, ct |-> t.ct, at |-> t.at, blockUp |-> b, convOK |-> k]
          IN /\ ~b => k
             /\ last' = Call("GetBlockByNumber", blockNum, e, cacheBlocks, cacheReceipts,
                             GetBlockByNumber(blockNum, cacheBlocks, e))
    /\ UNCHANGED <<cacheBlocks, cacheReceipts, hdrByHash, hdrByNumber>>
    /\ UNCHANGED bloomVars
    /\ UNCHANGED limiterVars
    /\ UNCHANGED exportVars

GetBlockByHashCall ==
    /\ last = NoCall
    /\ \E hash \in HashArgs, c \in BOOLEAN, ch \in ChainEnvs :
          LET e == [cacheUp |-> c, queryUp |-> ch.queryUp, decodeOK |-> ch.decodeOK,
                    blockUp |-> ch.blockUp, convOK |-> ch.convOK]
          IN last' = Call("GetBlockByHash", hash, e, cacheBlocks, cacheReceipts,
                          GetBlockByHash(hash, cacheBlocks, e))
    /\ UNCHANGED <<cacheBlocks, cacheReceipts, hdrByHash, hdrByNumber>>
    /\ UNCHANGED bloomVars
    /\ UNCHANGED limiterVars
    /\ UNCHANGED exportVars

HeaderByNumberCall ==
    /\ last = NoCall
    /\ \E blockNum \in BlockNums, c \in BOOLEAN, b \in BOOLEAN, bl \in BloomResps :
        \E t \in TipEnvsFor(blockNum) :
          LET e == [cacheUp |-> c, ct |-> t.ct, at |-> t.at, blockUp |-> b, bloom |-> bl]
          IN /\ ~b => bl = "ok"
             /\ last' = Call("HeaderByNumber", blockNum, e, cacheBlocks, cacheReceipts,
                             HeaderByNumber(blockNum, cacheBlocks, e))
    /\ UNCHANGED <<cacheBlocks, cacheReceipts, hdrByHash, hdrByNumber>>
    /\ UNCHANGED bloomVars
    /\ UNCHANGED limiterVars
    /\ UNCHANGED exportVars

HeaderByHashCall ==
    /\ last = NoCall
    /\ \E hash \in HashArgs, ch \in ChainEnvs, bl \in BloomResps :
          LET e == [queryUp |-> ch.queryUp, decodeOK |-> ch.decodeOK, blockUp |-> ch.blockUp,
                    bloom |-> bl]
          IN /\ ch.convOK
             /\ ~ch.blockUp => bl = "ok"
             /\ last' = Call("HeaderByHash", hash, e, cacheBlocks, cacheReceipts,
                             HeaderByHash(hash, e))
    /\ UNCHANGED <<cacheBlocks, cacheReceipts, hdrByHash, hdrByNumber>>
    /\ UNCHANGED bloomVars
    /\ UNCHANGED limiterVars
    /\ UNCHANGED exportVars

GetBlockHashByHeightCall ==
    /\ last = NoCall
    /\ \E height \in BlockNums, c \in BOOLEAN, qu \in BOOLEAN :
          LET e == [cacheUp |-> c, queryUp |-> qu]
          IN last' = Call("GetBlockHashByHeight", height, e, cacheBlocks, cacheReceipts,
                          GetBlockHashByHeight(height, cacheBlocks, e))
    /\ UNCHANGED <<cacheBlocks, cacheReceipts, hdrByHash, hdrByNumber>>
    /\ UNCHANGED bloomVars
    /\ UNCHANGED limiterVars
    /\ UNCHANGED exportVars

GetTransactionLogsCall ==
    /\ last = NoCall
    /\ \E txHash \in LogTxs, u \in BOOLEAN, bl \in Blobs :
          LET e == [txUp |-> u, blob |-> bl]
          IN /\ ~u => bl = "logs"
             /\ last' = Call("GetTransactionLogs", txHash, e, cacheBlocks, cacheReceipts,
                             GetTransactionLogs(txHash, e))
    /\ UNCHANGED <<cacheBlocks, cacheReceipts, hdrByHash, hdrByNumber>>
    /\ UNCHANGED bloomVars
    /\ UNCHANGED limiterVars
    /\ UNCHANGED exportVars

GetLogsCall ==
    /\ last = NoCall
    /\ \E blockHash \in LogHashes, c \in BOOLEAN, ch \in ChainEnvs,
          txe \in [1..TxPerBlock -> TxEnvs] :
          LET e == [cacheUp |-> c, queryUp |-> ch.queryUp, decodeOK |-> ch.decodeOK,
                    blockUp |-> ch.blockUp, convOK |-> ch.convOK, txe |-> txe]
              resBlock == GetBlockByHash(blockHash, cacheBlocks, e)
              out == GetLogs(blockHash, cacheBlocks, cacheReceipts, e)
          IN /\ TxEnvsUsed(txe, TxsOf(1), cacheReceipts, c, ~resBlock.isNil)
             /\ last' = Call("GetLogs", blockHash, e, cacheBlocks, cacheReceipts, out)
             /\ cacheReceipts' = out.receipts
    /\ UNCHANGED <<cacheBlocks, hdrByHash, hdrByNumber>>
    /\ UNCHANGED bloomVars
    /\ UNCHANGED limiterVars
    /\ UNCHANGED exportVars

PendingTransactionsCall ==
    /\ last = NoCall
    /\ \E e \in PoolEnvs :
          last' = Call("PendingTransactions", 0, e, cacheBlocks, cacheReceipts,
                       PendingTransactions(e))
    /\ UNCHANGED <<cacheBlocks, cacheReceipts, hdrByHash, hdrByNumber>>
    /\ UNCHANGED bloomVars
    /\ UNCHANGED limiterVars
    /\ UNCHANGED exportVars

\* the pool answers with at most limit entries
UserPendingTransactionsCall ==
    /\ last = NoCall
    /\ \E limit \in 0..MaxPool, e \in PoolEnvs :
          /\ Len(e.txs) <= limit
          /\ ~e.ok => limit = MaxPool
          /\ last' = Call("UserPendingTransactions", limit, e, cacheBlocks, cacheReceipts,
                          UserPendingTransactions(limit, e))
    /\ UNCHANGED <<cacheBlocks, cacheReceipts, hdrByHash, hdrByNumber>>
    /\ UNCHANGED bloomVars
    /\ UNCHANGED limiterVars
    /\ UNCHANGED exportVars

PendingTransactionsByHashCall ==
    /\ last = NoCall
    /\ \E target \in 1..MaxPool, e \in EntryEnvs :
          last' = Call("PendingTransactionsByHash", target, e, cacheBlocks, cacheReceipts,
                       PendingTransactionsByHash(target, e))
    /\ UNCHANGED <<cacheBlocks, cacheReceipts, hdrByHash, hdrByNumber>>
    /\ UNCHANGED bloomVars
    /\ UNCHANGED limiterVars
    /\ UNCHANGED exportVars

BloomStatusCall ==
    /\ last = NoCall
    /\ \E rest \in BOOLEAN, e \in StatusEnvs :
          /\ rest => e.stored = 0
          /\ ~rest => (e.queryUp /\ e.payload = "ok" /\ e.answer = 0)
          /\ last' = Call("BloomStatus", rest, e, cacheBlocks, cacheReceipts,
                          BloomStatus(rest, e))
    /\ UNCHANGED <<cacheBlocks, cacheReceipts, hdrByHash, hdrByNumber>>
    /\ UNCHANGED bloomVars
    /\ UNCHANGED limiterVars
    /\ UNCHANGED exportVars

\* the caller takes what the call returned
TakeResult ==
    /\ last # NoCall
    /\ last' = NoCall
    /\ UNCHANGED <<cacheBlocks, cacheReceipts, hdrByHash, hdrByNumber>>
    /\ UNCHANGED bloomVars
    /\ UNCHANGED limiterVars
    /\ UNCHANGED exportVars

(***************************************************************************)
(* The watcher fills the cache as the node executes blocks.                *)
(***************************************************************************)
WatcherSaveBlock ==
    /\ last = NoCall
    /\ \E h \in Heights \ cacheBlocks : cacheBlocks' = cacheBlocks \cup {h}
    /\ UNCHANGED <<cacheReceipts, last, hdrByHash, hdrByNumber>>
    /\ UNCHANGED bloomVars
    /\ UNCHANGED limiterVars
    /\ UNCHANGED exportVars

WatcherSaveReceipt ==
    /\ last = NoCall
    /\ \E tx \in LogTxs \cap TxIds, bl \in {"logs", "nologs"} :
        /\ ~cacheReceipts[tx].has
        /\ cacheReceipts' = [cacheReceipts EXCEPT ![tx] =
                                [has |-> TRUE, logs |-> DecodeResultData(bl, tx).logs]]
    /\ UNCHANGED <<cacheBlocks, last, hdrByHash, hdrByNumber>>
    /\ UNCHANGED bloomVars
    /\ UNCHANGED limiterVars
    /\ UNCHANGED exportVars

(***************************************************************************)
(* The rate limiters.                                                      *)
(***************************************************************************)
LimiterNames == {"eth_call", "eth_getLogs"}

\* nil, as a *rate.Limiter
NilLimiter == 0

\* the *rate.Limiter made for an API name
LimiterOf(name) == IF name = "eth_call" THEN 1 ELSE 2

\* a nil map
NilRegistry == [isNil |-> TRUE, m |-> <<>>]

\* the nil map, and the maps from some of the names to their limiters
Registries ==
    {NilRegistry}
    \cup {[isNil |-> FALSE, m |-> [n \in S |-> LimiterOf(n)]] : S \in SUBSET LimiterNames}

\* lines 500-505
GetRateLimiter(registry, apiName) ==
    IF registry.isNil
    THEN NilLimiter
    ELSE IF apiName \in DOMAIN registry.m THEN registry.m[apiName] ELSE NilLimiter

GetRateLimiterCall ==
    /\ last = NoCall
    /\ \E apiName \in LimiterNames \cup {"eth_chainId"} :
          last' = Call("GetRateLimiter", apiName, rateLimiters, cacheBlocks, cacheReceipts,
                       Out(GetRateLimiter(rateLimiters, apiName), FALSE, NoErr, <<>>, ""))
    /\ UNCHANGED <<cacheBlocks, cacheReceipts, hdrByHash, hdrByNumber>>
    /\ UNCHANGED bloomVars
    /\ UNCHANGED limiterVars
    /\ UNCHANGED exportVars

(***************************************************************************)
(* The export: goroutinePool, globalWG and the syncWrite functions.        *)
(***************************************************************************)
Writers == 1..NumWriters

CPUs == 1..MaxCPU

\* var goroutinePool chan struct{}: the nil channel
NilPool == [made |-> FALSE, cpus |-> 0, cap |-> 0, len |-> 0]

\* line 26: make(chan struct{}, (runtime.NumCPU()-1) * 64)
MakePool(numCPU) ==
    [made |-> TRUE, cpus |-> numCPU, cap |-> (numCPU - 1) * SlotsPerCPU, len |-> 0]

\* the export has not begun
ExportInit ==
    /\ goroutinePool = NilPool
    /\ globalWG = 0
    /\ epc = [w \in Writers |-> "idle"]

\* lines 25-27 and 58: initGoroutinePool, at the end of initExportEnv
InitGoroutinePool ==
    /\ ~goroutinePool.made
    /\ \E numCPU \in CPUs : goroutinePool' = MakePool(numCPU)
    /\ UNCHANGED <<globalWG, epc>>
    /\ UNCHANGED resolverVars
    /\ UNCHANGED bloomVars
    /\ UNCHANGED limiterVars

\* the export starts a goroutine on a syncWrite function (lines 88, 102, 139)
Spawn(w) ==
    /\ goroutinePool.made
    /\ epc[w] = "idle"
    /\ epc' = [epc EXCEPT ![w] = "send"]
    /\ UNCHANGED <<goroutinePool, globalWG>>
    /\ UNCHANGED resolverVars
    /\ UNCHANGED bloomVars
    /\ UNCHANGED limiterVars

\* line 30: goroutinePool <- struct{}{}; the send goes through when the
\* buffer has room (no receiver ever waits on the empty channel: a writer
\* receives only after its own send)
AddSend(w) ==
    /\ epc[w] = "send"
    /\ goroutinePool.len < goroutinePool.cap
    /\ goroutinePool' = [goroutinePool EXCEPT !.len = @ + 1]
    /\ epc' = [epc EXCEPT ![w] = "wgAdd"]
    /\ UNCHANGED globalWG
    /\ UNCHANGED resolverVars
    /\ UNCHANGED bloomVars
    /\ UNCHANGED limiterVars

\* line 31: globalWG.Add(1)
AddWG(w) ==
    /\ epc[w] = "wgAdd"
    /\ globalWG' = globalWG + 1
    /\ epc' = [epc EXCEPT ![w] = "write"]
    /\ UNCHANGED goroutinePool
    /\ UNCHANGED resolverVars
    /\ UNCHANGED bloomVars
    /\ UNCHANGED limiterVars

\* lines 92-98, 106-128, 143-149: the body of the syncWrite function, up to
\* its deferred finishGoroutine
Write(w) ==
    /\ epc[w] = "write"
    /\ epc' = [epc EXCEPT ![w] = "recv"]
    /\ UNCHANGED <<goroutinePool, globalWG>>
    /\ UNCHANGED resolverVars
    /\ UNCHANGED bloomVars
    /\ UNCHANGED limiterVars

\* line 35: <-goroutinePool
FinishRecv(w) ==
    /\ epc[w] = "recv"
    /\ goroutinePool.len > 0
    /\ goroutinePool' = [goroutinePool EXCEPT !.len = @ - 1]
    /\ epc' = [epc EXCEPT ![w] = "wgDone"]
    /\ UNCHANGED globalWG
    /\ UNCHANGED resolverVars
    /\ UNCHANGED bloomVars
    /\ UNCHANGED limiterVars

\* line 36: globalWG.Done()
FinishDone(w) ==
    /\ epc[w] = "wgDone"
    /\ globalWG' = globalWG - 1
    /\ epc' = [epc EXCEPT ![w] = "done"]
    /\ UNCHANGED goroutinePool
    /\ UNCHANGED resolverVars
    /\ UNCHANGED bloomVars
    /\ UNCHANGED limiterVars

NextExport ==
    \/ InitGoroutinePool
    \/ \E w \in Writers : Spawn(w)
    \/ \E w \in Writers : AddSend(w)
    \/ \E w \in Writers : AddWG(w)
    \/ \E w \in Writers : Write(w)
    \/ \E w \in Writers : FinishRecv(w)
    \/ \E w \in Writers : FinishDone(w)

\* every goroutine that can take its next step takes it
ExportFairness ==
    \A w \in Writers :
        /\ WF_vars(AddSend(w)) /\ WF_vars(AddWG(w)) /\ WF_vars(Write(w))
        /\ WF_vars(FinishRecv(w)) /\ WF_vars(FinishDone(w))

(***************************************************************************)
(* The bloom-bits handlers: StartBloomHandlers, ServiceFilter, Close.      *)
(***************************************************************************)
Workers == 1..NumWorkers

Muxes == 1..NumMux

Chans == 1..(NumMux * MaxRequests)

\* tmtypes.GetStartBlockHeight()
StartBlockHeight == 0

\* an error of the processing of the i-th section of a task
TaskErr(step, i) == [step |-> step, sec |-> i]

NoTaskErr == TaskErr("nil", 0)

\* a nil []byte
NilBits == [set |-> FALSE, bit |-> 0, section |-> 0, hash |-> ZeroHash]

\* the vector stored under evmtypes.BloomBitsKey(bit, section, hash), decompressed
Bits(bit, section, hash) == [set |-> TRUE, bit |-> bit, section |-> section, hash |-> hash]

\* a *bloombits.Retrieval; origin is the reply channel its caller sent it on and
\* done what the processing of each section did
NoTask ==
    [bit |-> 0, sections |-> <<>>, bitsets |-> <<>>, error |-> NoTaskErr, origin |-> 0,
     done |-> <<>>]

\* the task a Multiplex goroutine sends on reply channel c
NewTask(c, sections) ==
    [bit |-> 0, sections |-> sections, bitsets |-> <<>>, error |-> NoTaskErr, origin |-> c,
     done |-> <<>>]

\* the section lists asked for: the first n sections
SectionLists == {[i \in 1..n |-> i - 1] : n \in 1..MaxSections}

\* what the sources answer while one section is processed
SectionEnvs ==
    {s \in [cacheUp : {TRUE}, queryUp : BOOLEAN, readOK : BOOLEAN, decompressOK : BOOLEAN] :
        ~s.readOK => s.decompressOK}

\* ProcessSection with task.Error assigned whatever the read returned, nil included
ProcessSectionAssignsErr(task, i, cache, e) ==
    LET section == task.sections[i]
        height == ((section + 1) * SectionSize - 1) + StartBlockHeight
        hash == GetBlockHashByHeight(height, cache, e)
        t1 == IF hash.err # NoErr THEN [task EXCEPT !.error = TaskErr("hash", i)] ELSE task
        t2 == IF e.readOK
              THEN IF e.decompressOK
                   THEN [t1 EXCEPT !.bitsets[i] = Bits(task.bit, section, hash.res),
                                   !.error = NoTaskErr]
                   ELSE [t1 EXCEPT !.error = TaskErr("decompress", i)]
              ELSE [t1 EXCEPT !.error = TaskErr("read", i)]
    IN [t2 EXCEPT !.done = Append(@, [hashOK |-> hash.err = NoErr, readOK |-> e.readOK,
                                      decompressOK |-> e.decompressOK])]

\* lines 449-470: the body of the loop over task.Sections, for the i-th section
ProcessSection(task, i, cache, e) ==
    LET section == task.sections[i]
        height == ((section + 1) * SectionSize - 1) + StartBlockHeight
        hash == GetBlockHashByHeight(height, cache, e)
        t1 == IF hash.err # NoErr THEN [task EXCEPT !.error = TaskErr("hash", i)] ELSE task
        t2 == IF e.readOK
              THEN IF e.decompressOK
                   THEN [t1 EXCEPT !.bitsets[i] = Bits(task.bit, section, hash.res)]
                   ELSE [t1 EXCEPT !.error = TaskErr("decompress", i)]
              ELSE [t1 EXCEPT !.error = TaskErr("read", i)]
    IN [t2 EXCEPT !.done = Append(@, [hashOK |-> hash.err = NoErr, readOK |-> e.readOK,
                                      decompressOK |-> e.decompressOK])]

\* the loop over task.Sections left at the first section that failed
LoopBreakOnError(task, i) ==
    IF i >= Len(task.sections) \/ task.error # NoTaskErr THEN "send" ELSE "loop"

\* the task written back after its first section
LoopSendsEarly(task, i) == "send"

\* lines 448 and 471-472: after the i-th section the range loop goes on to
\* the next section, and to the write-back after the last
LoopNext(task, i) == IF i >= Len(task.sections) THEN "send" ELSE "loop"

\* line 447: task.Bitsets = make([][]byte, len(task.Sections))
MakeBitsets(task) == [task EXCEPT !.bitsets = [i \in 1..Len(task.sections) |-> NilBits]]

NoChan == [made |-> FALSE, takers |-> {}, writes |-> 0, crossed |-> FALSE]

BloomInit ==
    /\ closeBloomHandler = "open"
    /\ wpc = [w \in Workers |-> "idle"]
    /\ wreq = [w \in Workers |-> 0]
    /\ wtask = [w \in Workers |-> NoTask]
    /\ widx = [w \in Workers |-> 0]
    /\ spc = [m \in Muxes |-> "idle"]
    /\ schan = [m \in Muxes |-> 0]
    /\ sdone = [m \in Muxes |-> 0]
    /\ returned = [m \in Muxes |-> NoTask]
    /\ chans = [c \in Chans |-> NoChan]
    /\ nextChan = 0

\* StartBloomHandlers: the handler goroutines start and reach the select
StartBloomHandlers ==
    /\ \A w \in Workers : wpc[w] = "idle"
    /\ wpc' = [w \in Workers |-> "select"]
    /\ UNCHANGED <<closeBloomHandler, wreq, wtask, widx, spc, schan, sdone, returned, chans, nextChan>>
    /\ UNCHANGED resolverVars
    /\ UNCHANGED limiterVars
    /\ UNCHANGED exportVars

\* ServiceFilter: the Multiplex goroutines of a session start
ServiceFilter ==
    /\ \A m \in DOMAIN spc : spc[m] = "idle"
    /\ spc' = [m \in DOMAIN spc |-> "alloc"]
    /\ UNCHANGED <<closeBloomHandler, wpc, wreq, wtask, widx, schan, sdone, returned, chans, nextChan>>
    /\ UNCHANGED resolverVars
    /\ UNCHANGED limiterVars
    /\ UNCHANGED exportVars

\* Multiplex makes a reply channel and offers it on b.bloomRequests, or
\* returns when its session has nothing left to retrieve
MuxAlloc(m) ==
    /\ spc[m] = "alloc"
    /\ returned' = [returned EXCEPT ![m] = NoTask]
    /\ IF sdone[m] >= MaxRequests
       THEN /\ spc' = [spc EXCEPT ![m] = "done"]
            /\ UNCHANGED <<schan, chans, nextChan>>
       ELSE /\ spc' = [spc EXCEPT ![m] = "offer"]
            /\ nextChan' = nextChan + 1
            /\ schan' = [schan EXCEPT ![m] = nextChan + 1]
            /\ chans' = [chans EXCEPT ![nextChan + 1].made = TRUE]
    /\ UNCHANGED <<closeBloomHandler, wpc, wreq, wtask, widx, sdone>>
    /\ UNCHANGED resolverVars
    /\ UNCHANGED limiterVars
    /\ UNCHANGED exportVars

\* Multiplex goroutines of sessions that always have another bit to retrieve,
\* one more of them than there are handler goroutines
PoolMuxes == 1..(NumWorkers + 1)

\* the state after construction with the sessions of PoolMuxes
PoolInit ==
    /\ closeBloomHandler = "open"
    /\ wpc = [w \in Workers |-> "idle"]
    /\ wreq = [w \in Workers |-> 0]
    /\ wtask = [w \in Workers |-> NoTask]
    /\ widx = [w \in Workers |-> 0]
    /\ spc = [m \in PoolMuxes |-> "idle"]
    /\ schan = [m \in PoolMuxes |-> 0]
    /\ sdone = [m \in PoolMuxes |-> 0]
    /\ returned = [m \in PoolMuxes |-> NoTask]
    /\ chans = [c \in PoolMuxes |-> NoChan]
    /\ nextChan = 0

\* Multiplex drops the task it got back, makes a reply channel and offers it
\* on b.bloomRequests; the channel of its previous request is referenced by
\* nobody any more, so the new one takes its place
MuxNext(m) ==
    /\ spc[m] = "alloc"
    /\ returned' = [returned EXCEPT ![m] = NoTask]
    /\ spc' = [spc EXCEPT ![m] = "offer"]
    /\ schan' = [schan EXCEPT ![m] = m]
    /\ sdone' = [sdone EXCEPT ![m] = 0]
    /\ chans' = [chans EXCEPT ![m] = [NoChan EXCEPT !.made = TRUE]]
    /\ UNCHANGED <<closeBloomHandler, wpc, wreq, wtask, widx, nextChan>>
    /\ UNCHANGED resolverVars
    /\ UNCHANGED limiterVars
    /\ UNCHANGED exportVars

\* line 445: case request := <-b.bloomRequests, with the Multiplex goroutine
\* whose send it meets
Accept(w, m) ==
    /\ wpc[w] = "select"
    /\ spc[m] = "offer"
    /\ wreq' = [wreq EXCEPT ![w] = schan[m]]
    /\ wpc' = [wpc EXCEPT ![w] = "recvTask"]
    /\ spc' = [spc EXCEPT ![m] = "sendTask"]
    /\ chans' = [chans EXCEPT ![schan[m]].takers = @ \cup {w}]
    /\ UNCHANGED <<closeBloomHandler, wtask, widx, schan, sdone, returned, nextChan>>
    /\ UNCHANGED resolverVars
    /\ UNCHANGED limiterVars
    /\ UNCHANGED exportVars

\* the shutdown case leaving the select only, not the goroutine
ExitBreaksSelect(w) ==
    /\ wpc[w] = "select"
    /\ closeBloomHandler = "closed"
    /\ UNCHANGED <<closeBloomHandler, wpc, wreq, wtask, widx, spc, schan, sdone, returned, chans, nextChan>>
    /\ UNCHANGED resolverVars
    /\ UNCHANGED limiterVars
    /\ UNCHANGED exportVars

\* lines 442-443: case <-b.closeBloomHandler: return
Exit(w) ==
    /\ wpc[w] = "select"
    /\ closeBloomHandler = "closed"
    /\ wpc' = [wpc EXCEPT ![w] = "exited"]
    /\ UNCHANGED <<closeBloomHandler, wreq, wtask, widx, spc, schan, sdone, returned, chans, nextChan>>
    /\ UNCHANGED resolverVars
    /\ UNCHANGED limiterVars
    /\ UNCHANGED exportVars

\* lines 446-447: task := <-request, with the send of the Multiplex goroutine
ReceiveTask(w, m) ==
    /\ wpc[w] = "recvTask"
    /\ spc[m] = "sendTask"
    /\ wreq[w] = schan[m]
    /\ \E sections \in SectionLists :
        wtask' = [wtask EXCEPT ![w] = MakeBitsets(NewTask(schan[m], sections))]
    /\ widx' = [widx EXCEPT ![w] = 1]
    /\ wpc' = [wpc EXCEPT ![w] = "loop"]
    /\ spc' = [spc EXCEPT ![m] = "recvResult"]
    /\ UNCHANGED <<closeBloomHandler, wreq, schan, sdone, returned, chans, nextChan>>
    /\ UNCHANGED resolverVars
    /\ UNCHANGED limiterVars
    /\ UNCHANGED exportVars

\* lines 448-471: one turn of the loop over task.Sections
Section(w) ==
    /\ wpc[w] = "loop"
    /\ \E e \in SectionEnvs :
        wtask' = [wtask EXCEPT ![w] = ProcessSection(wtask[w], widx[w], cacheBlocks, e)]
    /\ widx' = [widx EXCEPT ![w] = @ + 1]
    /\ wpc' = [wpc EXCEPT ![w] = LoopNext(wtask'[w], widx[w])]
    /\ UNCHANGED <<closeBloomHandler, wreq, spc, schan, sdone, returned, chans, nextChan>>
    /\ UNCHANGED resolverVars
    /\ UNCHANGED limiterVars
    /\ UNCHANGED exportVars

\* the request variable shared by all the handler goroutines
ReplyChanShared(w) == wreq[1]

\* the reply channel worker w writes the task back on
ReplyChan(w) == wreq[w]

\* the handler goroutine returning after it wrote the task back
WriteBackThenReturn(w, m) ==
    /\ wpc[w] = "send"
    /\ spc[m] = "recvResult"
    /\ schan[m] = ReplyChan(w)
    /\ returned' = [returned EXCEPT ![m] = wtask[w]]
    /\ chans' = [chans EXCEPT ![schan[m]].writes = @ + 1,
                              ![schan[m]].crossed = @ \/ wtask[w].origin # schan[m]]
    /\ sdone' = [sdone EXCEPT ![m] = @ + 1]
    /\ spc' = [spc EXCEPT ![m] = "alloc"]
    /\ wpc' = [wpc EXCEPT ![w] = "exited"]
    /\ wtask' = [wtask EXCEPT ![w] = NoTask]
    /\ wreq' = [wreq EXCEPT ![w] = 0]
    /\ widx' = [widx EXCEPT ![w] = 0]
    /\ UNCHANGED <<closeBloomHandler, schan, nextChan>>
    /\ UNCHANGED resolverVars
    /\ UNCHANGED limiterVars
    /\ UNCHANGED exportVars

\* line 472: request <- task, with the receive of the Multiplex goroutine
WriteBack(w, m) ==
    /\ wpc[w] = "send"
    /\ spc[m] = "recvResult"
    /\ schan[m] = ReplyChan(w)
    /\ returned' = [returned EXCEPT ![m] = wtask[w]]
    /\ chans' = [chans EXCEPT ![schan[m]].writes = @ + 1,
                              ![schan[m]].crossed = @ \/ wtask[w].origin # schan[m]]
    /\ sdone' = [sdone EXCEPT ![m] = @ + 1]
    /\ spc' = [spc EXCEPT ![m] = "alloc"]
    /\ wpc' = [wpc EXCEPT ![w] = "select"]
    /\ wtask' = [wtask EXCEPT ![w] = NoTask]
    /\ wreq' = [wreq EXCEPT ![w] = 0]
    /\ widx' = [widx EXCEPT ![w] = 0]
    /\ UNCHANGED <<closeBloomHandler, schan, nextChan>>
    /\ UNCHANGED resolverVars
    /\ UNCHANGED limiterVars
    /\ UNCHANGED exportVars

\* Close emptying the registry
CloseDropsLimiters ==
    /\ closeBloomHandler = "open"
    /\ closeBloomHandler' = "closed"
    /\ rateLimiters' = NilRegistry
    /\ UNCHANGED <<wpc, wreq, wtask, widx, spc, schan, sdone, returned, chans, nextChan>>
    /\ UNCHANGED resolverVars
    /\ UNCHANGED exportVars

\* Close: close(b.closeBloomHandler)
Close ==
    /\ closeBloomHandler = "open"
    /\ closeBloomHandler' = "closed"
    /\ UNCHANGED <<wpc, wreq, wtask, widx, spc, schan, sdone, returned, chans, nextChan>>
    /\ UNCHANGED resolverVars
    /\ UNCHANGED limiterVars
    /\ UNCHANGED exportVars

NextBloom ==
    \/ StartBloomHandlers
    \/ ServiceFilter
    \/ Close
    \/ \E m \in Muxes : MuxAlloc(m)
    \/ \E w \in Workers : Exit(w)
    \/ \E w \in Workers : Section(w)
    \/ \E w \in Workers, m \in Muxes : Accept(w, m)
    \/ \E w \in Workers, m \in Muxes : ReceiveTask(w, m)
    \/ \E w \in Workers, m \in Muxes : WriteBack(w, m)

(***************************************************************************)
(* The bit vector of one section: its key, the two stores, decompression.  *)
(***************************************************************************)
\* the longest compressed or decompressed vector, in bytes
MaxVec == MaxSectionSize \div 8

\* a stored vector: its length in bytes, and the length it expands to when
\* bitutil decodes it as a compressed bitset
Vectors == {v \in [len : 0..MaxVec, expands : 0..MaxVec] : v.len <= v.expands}

\* the store has nothing under the key, or the read fails
Missing == [len |-> 0 - 1, expands |-> 0 - 1]

VecSections == 0..1

VecHashes == {HashOf(1)}

\* evmtypes.BloomBitsKey(task.Bit, section, hash)
BloomBitsKey(bit, section, hash) == <<bit, section, hash>>

VecKeys == {BloomBitsKey(0, sec, h) : sec \in VecSections, h \in VecHashes}

\* evmtypes.ReadBloomBits(db, task.Bit, section, hash)
ReadBloomBits(db, bit, section, hash) == db[BloomBitsKey(bit, section, hash)]

\* the QueryBloomBits query, with the encoded key in its path
QueryBloomBits(remote, key) == remote[key]

\* bitutil.DecompressBytes(compVector, target): a vector longer than target
\* is refused, one of target bytes is copied, a shorter one is decoded and
\* must expand to target bytes
DecompressBytes(v, target) ==
    IF v.len > target
    THEN [ok |-> FALSE, blob |-> [len |-> 0, of |-> Missing]]
    ELSE IF v.len = target
    THEN [ok |-> TRUE, blob |-> [len |-> v.len, of |-> v]]
    ELSE IF v.expands = target
    THEN [ok |-> TRUE, blob |-> [len |-> v.expands, of |-> v]]
    ELSE [ok |-> FALSE, blob |-> [len |-> 0, of |-> Missing]]

\* SectionVector decompressing to sectionSize bytes
SectionVectorWrongTarget(rest, sectionSize, db, remote, bit, section, hash) ==
    LET bitsKey == BloomBitsKey(bit, section, hash)
        compVector == IF rest THEN QueryBloomBits(remote, bitsKey)
                      ELSE ReadBloomBits(db, bit, section, hash)
        d == DecompressBytes(compVector, sectionSize)
    IN IF compVector = Missing
       THEN [set |-> FALSE, blob |-> [len |-> 0, of |-> Missing], err |-> "read"]
       ELSE IF d.ok
       THEN [set |-> TRUE, blob |-> d.blob, err |-> NoErr]
       ELSE [set |-> FALSE, blob |-> [len |-> 0, of |-> Missing], err |-> "decompress"]

\* lines 454-470: the vector of one section is read through the remote
\* query when the process fronts a remote node (rest), from the local store
\* otherwise, and decompressed to sectionSize/8 bytes into the output slot
SectionVector(rest, sectionSize, db, remote, bit, section, hash) ==
    LET bitsKey == BloomBitsKey(bit, section, hash)
        compVector == IF rest THEN QueryBloomBits(remote, bitsKey)
                      ELSE ReadBloomBits(db, bit, section, hash)
        d == DecompressBytes(compVector, sectionSize \div 8)
    IN IF compVector = Missing
       THEN [set |-> FALSE, blob |-> [len |-> 0, of |-> Missing], err |-> "read"]
       ELSE IF d.ok
       THEN [set |-> TRUE, blob |-> d.blob, err |-> NoErr]
       ELSE [set |-> FALSE, blob |-> [len |-> 0, of |-> Missing], err |-> "decompress"]

\* the contents of a store
Stores == [VecKeys -> Vectors \cup {Missing}]

\* the same section is processed by a process reading the local store and
\* by one fronting a remote node
SectionVectorCall ==
    /\ last = NoCall
    /\ \E sectionSize \in 0..MaxSectionSize, section \in VecSections, hash \in VecHashes,
          db \in Stores, k \in VecKeys, v \in Vectors \cup {Missing} :
          LET remote == [db EXCEPT ![k] = v]
              e == [sectionSize |-> sectionSize, db |-> db, remote |-> remote,
                    hash |-> hash]
              out == [local |-> SectionVector(FALSE, sectionSize, db, remote, 0, section, hash),
                      remote |-> SectionVector(TRUE, sectionSize, db, remote, 0, section, hash)]
          IN last' = Call("SectionVector", section, e, cacheBlocks, cacheReceipts, out)
    /\ UNCHANGED <<cacheBlocks, cacheReceipts, hdrByHash, hdrByNumber>>
    /\ UNCHANGED bloomVars
    /\ UNCHANGED limiterVars
    /\ UNCHANGED exportVars

(***************************************************************************)
(* The resolver: every accessor, called in any order with any answers of   *)
(* the two sources.                                                        *)
(***************************************************************************)
ResolverInit ==
    /\ cacheBlocks = {}
    /\ cacheReceipts = [tx \in TxIds |-> NoReceipt]
    /\ last = NoCall
    /\ hdrByHash = [h \in Heights |-> {}]
    /\ hdrByNumber = [h \in Heights |-> {}]

\* New is given the nil registry
Init == ResolverInit /\ BloomInit /\ rateLimiters = NilRegistry /\ ExportInit

\* New is given any registry
InitLimiters == ResolverInit /\ BloomInit /\ rateLimiters \in Registries /\ ExportInit

Next ==
    \/ BlockNumberCall
    \/ GetBlockByNumberCall
    \/ GetBlockByHashCall
    \/ HeaderByNumberCall
    \/ HeaderByHashCall
    \/ GetBlockHashByHeightCall
    \/ GetTransactionLogsCall
    \/ GetLogsCall
    \/ PendingTransactionsCall
    \/ UserPendingTransactionsCall
    \/ PendingTransactionsByHashCall
    \/ BloomStatusCall
    \/ TakeResult
    \/ WatcherSaveBlock
    \/ WatcherSaveReceipt

Spec == Init /\ [][Next]_vars

SpecBloom == Init /\ [][NextBloom]_vars

\* the scheduler runs every goroutine that can take a step; a select with
\* several ready cases chooses among them at random, so a shutdown case that
\* is ready again and again is chosen in the end
BloomFairness ==
    /\ \A w \in Workers : SF_vars(Exit(w)) /\ WF_vars(Section(w))
    /\ \A w \in Workers, m \in Muxes : WF_vars(ReceiveTask(w, m)) /\ WF_vars(WriteBack(w, m))
    /\ \A m \in Muxes : WF_vars(MuxAlloc(m))

FairSpecBloom == Init /\ [][NextBloom]_vars /\ BloomFairness

\* the sources all answering while a section is processed
AllUp == [cacheUp |-> TRUE, queryUp |-> TRUE, readOK |-> TRUE, decompressOK |-> TRUE]

\* one turn of the loop over task.Sections in which every source answers
SectionUp(w) ==
    /\ Section(w)
    /\ wtask' = [wtask EXCEPT ![w] = ProcessSection(wtask[w], widx[w], cacheBlocks, AllUp)]

NextPool ==
    \/ StartBloomHandlers
    \/ ServiceFilter
    \/ Close
    \/ \E m \in PoolMuxes : MuxNext(m)
    \/ \E w \in Workers : Exit(w)
    \/ \E w \in Workers : SectionUp(w)
    \/ \E w \in Workers, m \in PoolMuxes : Accept(w, m)
    \/ \E w \in Workers, m \in PoolMuxes : ReceiveTask(w, m)
    \/ \E w \in Workers, m \in PoolMuxes : WriteBack(w, m)

\* some handler goroutine receives the reply channel session m offers
AcceptAny(m) == \E w \in Workers : Accept(w, m)

\* the handlers are started, the callers supply their tasks and take them
\* back, the reads return, and a reply channel that stays receivable is
\* received
PoolFairness ==
    /\ WF_vars(StartBloomHandlers)
    /\ \A w \in Workers : WF_vars(SectionUp(w))
    /\ \A w \in Workers, m \in PoolMuxes : WF_vars(ReceiveTask(w, m)) /\ WF_vars(WriteBack(w, m))
    /\ \A m \in PoolMuxes : WF_vars(AcceptAny(m))

InitPool == ResolverInit /\ PoolInit /\ rateLimiters = NilRegistry /\ ExportInit

FairSpecPool == InitPool /\ [][NextPool]_vars /\ PoolFairness

FairSpecExport == Init /\ [][NextExport]_vars /\ ExportFairness

NextVectors ==
    \/ SectionVectorCall
    \/ TakeResult

SpecVectors == Init /\ [][NextVectors]_vars

\* every operation of the backend, with the handler goroutines that wait
\* for requests and leave at shutdown
NextLimiters ==
    \/ GetRateLimiterCall
    \/ BlockNumberCall
    \/ GetBlockByNumberCall
    \/ GetBlockByHashCall
    \/ HeaderByNumberCall
    \/ HeaderByHashCall
    \/ GetBlockHashByHeightCall
    \/ GetTransactionLogsCall
    \/ GetLogsCall
    \/ PendingTransactionsCall
    \/ UserPendingTransactionsCall
    \/ PendingTransactionsByHashCall
    \/ BloomStatusCall
    \/ TakeResult
    \/ StartBloomHandlers
    \/ ServiceFilter
    \/ Close
    \/ \E w \in Workers : Exit(w)

SpecLimiters == InitLimiters /\ [][NextLimiters]_vars

(***************************************************************************)
(* The two header entry points, with the headers each has returned.        *)
(***************************************************************************)
\* the caller keeps the bloom of the header it was handed
RecordHeader ==
    /\ last.op \in {"HeaderByNumber", "HeaderByHash"}
    /\ LET out == last.out
           seen == [bloom |-> out.res.bloom]
       IN IF out.isNil \/ out.panic
          THEN UNCHANGED <<hdrByHash, hdrByNumber>>
          ELSE IF last.op = "HeaderByHash"
          THEN /\ hdrByHash' = [hdrByHash EXCEPT ![out.res.height] = @ \cup {seen}]
               /\ UNCHANGED hdrByNumber
          ELSE /\ hdrByNumber' = [hdrByNumber EXCEPT ![out.res.height] = @ \cup {seen}]
               /\ UNCHANGED hdrByHash
    /\ last' = NoCall
    /\ UNCHANGED <<cacheBlocks, cacheReceipts>>
    /\ UNCHANGED bloomVars
    /\ UNCHANGED limiterVars
    /\ UNCHANGED exportVars

NextHeaders ==
    \/ HeaderByNumberCall
    \/ HeaderByHashCall
    \/ RecordHeader
    \/ WatcherSaveBlock

SpecHeaders == Init /\ [][NextHeaders]_vars

(***************************************************************************)
(* Claims about the resolver.                                              *)
(***************************************************************************)
\* the tip height reported by the source that answered BlockNumber
ReportedTip == IF last.e.ct.ok THEN last.e.ct.v ELSE last.e.at.v

\* C1: whichever source answers BlockNumber with a tip height t, the call
\* returns t-1 when t > 0 and 0 when t <= 0, with no error.
C1_BlockNumberOneBelowTip ==
    (last.op = "BlockNumber" /\ (last.e.ct.ok \/ last.e.at.ok))
    => /\ last.out.err = NoErr
       /\ last.out.res = (IF ReportedTip > 0 THEN ReportedTip - 1 ELSE 0)

\* the calls q made to the sources follow the cache-first policy, item by item
CacheFirst(q) ==
    /\ Len(q) > 0 => q[1].src = "cache"
    /\ \A j \in 1..Len(q) :
        q[j].src = "auth"
        => \E i \in 1..(j - 1) : q[i].src = "cache" /\ q[i].item = q[j].item /\ ~q[i].ok
    /\ \A i \in 1..Len(q) :
        (q[i].src = "cache" /\ q[i].ok)
        => \A j \in (i + 1)..Len(q) : ~(q[j].src = "auth" /\ q[j].item = q[i].item)

\* an error handed to the caller comes from the authoritative source, asked last
ErrorFromFinalSource(out) ==
    out.err # NoErr => (Len(out.q) > 0 /\ out.q[Len(out.q)].src = "auth")

ReadAccessors ==
    {"BlockNumber", "GetBlockByNumber", "GetBlockByHash", "HeaderByNumber", "HeaderByHash",
     "GetLogs", "GetTransactionLogs", "GetBlockHashByHeight"}

AuthOnlyAccessors == {"HeaderByHash", "GetTransactionLogs"}

\* C2 as stated: every read accessor asks the cache first and the
\* authoritative source only after the cache failed for that item, and never
\* returns a cache error.
C2_EveryAccessorCacheFirst ==
    last.op \in ReadAccessors
    => CacheFirst(last.out.q) /\ ErrorFromFinalSource(last.out)

\* C2 amended: BlockNumber, GetBlockByNumber, GetBlockByHash, HeaderByNumber,
\* GetLogs and GetBlockHashByHeight ask the cache first and the authoritative
\* source only after the cache failed for that item, never return a cache
\* error and do not ask the authoritative source for an item the cache
\* answered; HeaderByHash and GetTransactionLogs never ask the cache and
\* resolve through the authoritative source alone.
C2_CacheFirstExceptAuthOnly ==
    /\ last.op \in ReadAccessors \ AuthOnlyAccessors
       => CacheFirst(last.out.q) /\ ErrorFromFinalSource(last.out)
    /\ last.op \in AuthOnlyAccessors
       => /\ Len(last.out.q) > 0
          /\ \A i \in 1..Len(last.out.q) : last.out.q[i].src = "auth"

\* a cache miss followed by an authoritative answer, and a cache hit that
\* ends the call, both seen
C2_Witness ==
    /\ last.op = "GetBlockByHash"
    /\ Len(last.out.q) = 3
    /\ ~last.out.q[1].ok /\ last.out.q[3].ok
    /\ last.out.err = NoErr /\ ~last.out.isNil

\* the steps of the authoritative source: structured query, block fetch,
\* transaction fetch, chain info
AuthSteps == {"Query", "QueryBloom", "Block", "Tx", "BlockchainInfo"}

\* C3: after a cache miss and a failure of a step of the authoritative
\* source, the accessor returns that error; only GetLogs for an unlocatable
\* transaction returns nil with a nil error.
C3_AuthFailureIsReturned ==
    (/\ last.op \in ReadAccessors
     /\ last.out.fail \in AuthSteps
     /\ ~(last.op = "GetLogs" /\ last.out.fail = "Tx"))
    => last.out.err # NoErr /\ ~last.out.panic

\* GetLogs resolved the block and entered the loop over its transactions
LoopEntered ==
    /\ last.op = "GetLogs"
    /\ \E i \in 1..Len(last.out.q) : last.out.q[i].kind = "MustGetTransactionReceipt"

\* the cache handed out no receipt for the i-th transaction of the block
Miss(i) == ~(last.e.cacheUp /\ last.rc[TxsOf(1)[i]].has)

\* the k-th transaction has no receipt in the cache and its fetch fails
Unlocatable(k) == Miss(k) /\ last.e.txe[k].step = "txErr"

\* the i-th transaction misses the cache and its reconstruction fails
Fails(i) == Miss(i) /\ last.e.txe[i].step # "ok"

TxExists == last.op = "GetTransactionLogs" /\ last.e.txUp /\ last.arg \in TxIds

\* C5 as stated: for a transaction that exists and emitted no logs,
\* GetTransactionLogs returns an empty list and no error, whatever the
\* execution-result blob holds.
C5_NoLogsNeverAnError ==
    (TxExists /\ last.e.blob \in {"nologs", "undecodable"})
    => last.out.err = NoErr /\ last.out.res = <<>>

\* C5 amended: for a transaction that exists and emitted no logs,
\* GetTransactionLogs returns a list without logs and no error when the
\* execution-result blob decodes, and the decoding error (with no list) when
\* the blob does not decode.
C5_NoLogsUnlessUndecodable ==
    /\ (TxExists /\ last.e.blob = "nologs")
       => last.out.err = NoErr /\ last.out.res = <<>> /\ ~last.out.isNil
    /\ (TxExists /\ last.e.blob = "undecodable")
       => last.out.err = "DecodeResultData" /\ last.out.isNil

\* a transaction whose blob decodes to no logs was asked for
C5_Witness ==
    TxExists /\ last.e.blob = "nologs" /\ last.out.err = NoErr

SectionFailed(t, i) ==
    ~t.done[i].hashOK \/ ~t.done[i].readOK \/ ~t.done[i].decompressOK

\* the read and the decompression of the i-th section of task t succeeded
SectionRead(t, i) == t.done[i].readOK /\ t.done[i].decompressOK

\* the tasks the Multiplex goroutines hold after the write-back
ReturnedTasks == {returned[m] : m \in {x \in Muxes : returned[x] # NoTask}}

\* C7 as stated: in a returned task every section that was read and
\* decompressed has its output filled, and every section that failed still
\* has its error recorded, also when two sections failed.
C7_EverySectionKeepsItsResult ==
    \A t \in ReturnedTasks :
        \A i \in 1..Len(t.sections) :
            /\ SectionRead(t, i) => t.bitsets[i].set
            /\ SectionFailed(t, i) => t.error.sec = i

\* the step whose error the processing of the i-th section leaves in task.Error
LastFailedStep(t, i) ==
    IF ~t.done[i].readOK THEN "read"
    ELSE IF ~t.done[i].decompressOK THEN "decompress"
    ELSE "hash"

\* C7 amended: in a returned task the output slot of a section is filled
\* exactly when its read and decompression succeeded, with the vector of that
\* section, whatever happened to the other sections; the task has one Error
\* slot, which holds the error of the last section that failed (the error of
\* an earlier failing section is overwritten by a later failing one, never by a
\* section that succeeds) and is nil only when no section failed.
C7_OutputsKeptLastErrorKept ==
    \A t \in ReturnedTasks :
        LET failed == {i \in 1..Len(t.sections) : SectionFailed(t, i)}
        IN /\ Len(t.bitsets) = Len(t.sections) /\ Len(t.done) = Len(t.sections)
           /\ \A i \in 1..Len(t.sections) :
                /\ t.bitsets[i].set <=> SectionRead(t, i)
                /\ t.bitsets[i].set
                   => t.bitsets[i].bit = t.bit /\ t.bitsets[i].section = t.sections[i]
           /\ failed = {} => t.error = NoTaskErr
           /\ failed # {}
              => LET l == CHOOSE i \in failed : \A j \in failed : j <= i
                 IN t.error = TaskErr(LastFailedStep(t, l), l)

\* a task came back with a failed first section, its error recorded, and a
\* valid second section, its output filled
C7_Witness ==
    \E t \in ReturnedTasks :
        /\ Len(t.sections) >= 2
        /\ SectionFailed(t, 1) /\ ~t.bitsets[1].set /\ t.error.sec = 1
        /\ ~SectionFailed(t, 2) /\ t.bitsets[2].set

\* no worker has started or every worker has returned
AllExited == \A w \in Workers : wpc[w] \in {"idle", "exited"}

\* C8: a failed section aborts neither the task nor the worker: the loop
\* goes on to every later section, the task is written back, and the worker
\* returns to the select.
C8_FailureAbortsNothing ==
    /\ [][\A w \in Workers :
            /\ wpc[w] = "loop" => wpc'[w] \in {"loop", "send"}
            /\ (wpc[w] = "loop" /\ wpc'[w] = "loop") => widx'[w] \in {widx[w], widx[w] + 1}
            /\ (wpc[w] = "loop" /\ wpc'[w] = "send")
               => Len(wtask'[w].done) = Len(wtask'[w].sections)
            /\ wpc[w] = "send" => wpc'[w] \in {"send", "select"}
            /\ (wpc[w] = "send" /\ wpc'[w] = "select")
               => \E m \in Muxes : returned'[m] = wtask[w]]_vars
    /\ \A w \in Workers :
        (wpc[w] = "loop" /\ wtask[w].error # NoTaskErr) ~> (wpc[w] = "select")

\* a task whose first section failed came back with its later section
\* attempted, and the worker that served it is at the select again
C8_Witness ==
    \E t \in ReturnedTasks :
        /\ Len(t.sections) >= 2
        /\ SectionFailed(t, 1)
        /\ Len(t.done) = Len(t.sections)
        /\ \E w \in chans[t.origin].takers : wpc[w] = "select"

\* C9 as stated: after Close every worker eventually exits, and no request
\* is accepted from the request channel once shutdown was broadcast.
C9_NoRequestAfterClose ==
    /\ (closeBloomHandler = "closed") ~> AllExited
    /\ [][closeBloomHandler = "closed"
          => \A w \in Workers : ~(wpc[w] = "select" /\ wpc'[w] = "recvTask")]_vars

\* C9 amended: after Close every worker eventually exits, given that the
\* callers complete the requests that were accepted and the reads return; a
\* worker whose select finds both the shutdown signal and a request ready may
\* still accept that request (and serve it) before it exits; a worker exits
\* only from the select and only after Close, a worker that has exited
\* accepts nothing more, and a sender that is blocked on the request channel
\* when all workers have exited stays blocked.
C9_WorkersExitAfterClose ==
    /\ (closeBloomHandler = "closed") ~> AllExited
    /\ [][\A w \in Workers :
            /\ wpc[w] = "exited" => wpc'[w] = "exited"
            /\ (wpc[w] # "exited" /\ wpc'[w] = "exited")
               => wpc[w] = "select" /\ closeBloomHandler = "closed"]_vars
    /\ [][\A m \in Muxes :
            (spc[m] = "offer" /\ \A w \in Workers : wpc[w] = "exited")
            => spc'[m] = "offer"]_vars

\* shutdown was broadcast, every worker has exited and a sender is blocked
\* on the request channel
C9_Witness ==
    /\ closeBloomHandler = "closed"
    /\ \A w \in Workers : wpc[w] = "exited"
    /\ \E m \in Muxes : spc[m] = "offer"
    /\ \E c \in Chans : chans[c].writes = 1

\* the workers that hold a reply channel
Busy == {w \in Workers : wpc[w] \in {"recvTask", "loop", "send"}}

\* C10: a reply channel is taken by one worker only, which writes the filled
\* task back once, on that channel; no task comes back on the reply channel
\* of another request and no request is answered twice.
C10_OneWorkerOneReply ==
    /\ \A c \in Chans :
        /\ Cardinality(chans[c].takers) <= 1
        /\ chans[c].writes <= 1
        /\ ~chans[c].crossed
        /\ chans[c].writes = 1 => chans[c].takers # {}
    /\ \A w \in Busy : chans[wreq[w]].takers = {w} /\ chans[wreq[w]].writes = 0
    /\ \A w \in Busy : wpc[w] # "recvTask" => wtask[w].origin = wreq[w]
    /\ \A v, w \in Busy : v # w => wreq[v] # wreq[w]
    /\ \A m \in Muxes :
        /\ returned[m] # NoTask => returned[m].origin = schan[m]
        /\ (spc[m] \in {"alloc", "done"} /\ sdone[m] > 0) => chans[schan[m]].writes = 1

\* one request has been answered while another worker holds a second one
C10_Witness ==
    /\ \E m \in Muxes : returned[m] # NoTask /\ chans[returned[m].origin].writes = 1
    /\ \E w \in Busy : wpc[w] \in {"loop", "send"}

(***************************************************************************)
(* Claims about the pending-transaction views.                             *)
(***************************************************************************)
\* the entries of listing txs that decode as EVM transactions, in pool order
RECURSIVE Decodable(_, _)
Decodable(txs, i) ==
    IF i > Len(txs) THEN <<>>
    ELSE IF RawTxToEthTx(txs[i]) THEN <<RpcTx(i)>> \o Decodable(txs, i + 1)
    ELSE Decodable(txs, i + 1)

\* a listing call whose pool answered, every decodable entry convertible
Listed ==
    /\ last.op \in {"PendingTransactions", "UserPendingTransactions"}
    /\ last.e.ok
    /\ \A i \in 1..Len(last.e.txs) : last.e.txs[i] # "unconvertible"

\* C11: PendingTransactions and UserPendingTransactions return exactly the
\* entries of the listing that decode as EVM transactions, in pool order,
\* with no nil element, and an entry that fails decoding raises no error.
C11_ListsExactlyTheDecodable ==
    Listed
    => /\ last.out.err = NoErr
       /\ last.out.res = Decodable(last.e.txs, 1)
       /\ \A i \in 1..Len(last.out.res) : ~last.out.res[i].isNil

\* C12: in every pending-transaction view, the lookup by hash included, an
\* entry that fails EVM decoding is skipped and is not reported as an error.
C12_UndecodableEntryIsNoError ==
    /\ (/\ last.op \in {"PendingTransactions", "UserPendingTransactions"}
        /\ last.e.ok
        /\ \A i \in 1..Len(last.e.txs) : last.e.txs[i] # "unconvertible")
       => last.out.err = NoErr
    /\ (last.op = "PendingTransactionsByHash" /\ last.e.ok /\ last.e.kind = "nonevm")
       => last.out.err = NoErr

(***************************************************************************)
(* Claims about the bit vectors and BloomStatus.                           *)
(***************************************************************************)
\* the key the call read in both stores
VectorKey == BloomBitsKey(0, last.arg, last.e.hash)

IndexedSections == IF last.arg THEN last.e.answer ELSE last.e.stored

\* C14 as stated: BloomStatus returns the section size and the count of
\* indexed sections, also when the remote query or the decoding of its
\* payload fails.
C14_StatusIsSizeAndIndexedCount ==
    last.op = "BloomStatus"
    => /\ last.out.res[1] = BloomBitsBlocks
       /\ last.out.res[2] = IndexedSections

\* C14 amended: BloomStatus returns the section size and, as the count, the
\* local indexer's stored-section count in a local deployment and the
\* answer of the section-count query in a remote-fronted one; when that query
\* fails or its payload does not decode, the count returned is 0.
C14_StatusCountZeroOnFailure ==
    last.op = "BloomStatus"
    => /\ last.out.res[1] = BloomBitsBlocks
       /\ last.out.err = NoErr
       /\ (~last.arg) => last.out.res[2] = last.e.stored /\ last.out.q = <<>>
       /\ (last.arg /\ last.e.queryUp /\ last.e.payload = "ok")
          => last.out.res[2] = last.e.answer
       /\ (last.arg /\ ~(last.e.queryUp /\ last.e.payload = "ok"))
          => last.out.res[2] = 0

\* the remote query answered a positive count and BloomStatus returned it
C14_Witness ==
    /\ last.op = "BloomStatus"
    /\ last.arg /\ last.e.queryUp /\ last.e.payload = "ok"
    /\ last.e.answer > 0
    /\ last.out.res = <<BloomBitsBlocks, last.e.answer>>

(***************************************************************************)
(* Claims about decode failures, sentinels and the receipts GetLogs writes.*)
(***************************************************************************)
\* the call made a query of the given kind that was answered
Answered(kind) ==
    \E i \in 1..Len(last.out.q) : last.out.q[i].kind = kind /\ last.out.q[i].ok

\* the call read a hash-to-height payload that does not decode
HashPayloadUndecodable ==
    /\ last.op \in {"GetBlockByHash", "HeaderByHash", "GetLogs"}
    /\ Answered("QueryHashToHeight") /\ ~last.e.decodeOK

\* the call read a bloom-for-height payload that does not decode
BloomPayloadUndecodable ==
    /\ last.op \in {"HeaderByNumber", "HeaderByHash"}
    /\ Answered("QueryBloom") /\ last.e.bloom = "undecodable"

\* GetTransactionLogs read an execution-result blob that does not decode
TxBlobUndecodable ==
    last.op = "GetTransactionLogs" /\ Answered("Tx") /\ last.e.blob = "undecodable"

\* the transactions of the block for which GetLogs read an execution-result
\* blob that does not decode
LogsBlobUndecodable ==
    IF last.op # "GetLogs" THEN {}
    ELSE {i \in 1..TxPerBlock :
            /\ last.e.txe[i].step = "ok" /\ last.e.txe[i].blob = "undecodable"
            /\ \E j \in 1..Len(last.out.commits) : last.out.commits[j].tx = TxsOf(1)[i]}

\* C15 as stated: a payload or an execution-result blob that does not
\* decode makes the call return an error, in every accessor that decodes one.
C15_DecodeFailureIsAnError ==
    (\/ HashPayloadUndecodable
     \/ BloomPayloadUndecodable
     \/ TxBlobUndecodable
     \/ LogsBlobUndecodable # {})
    => last.out.err # NoErr /\ ~last.out.panic

\* C15 amended: a hash-to-height payload that does not decode makes
\* GetBlockByHash and HeaderByHash (and GetLogs, which resolves its block
\* through GetBlockByHash) return the decoding error, and so does an
\* execution-result blob in GetTransactionLogs; a bloom-for-height payload
\* that does not decode makes HeaderByNumber and HeaderByHash panic instead of
\* returning; GetLogs treats an execution-result blob that does not decode as
\* a failed transaction: it commits a receipt with status 0 and no logs, adds
\* an empty list for it and goes on, without an error for it.
C15_DecodeFailurePerAccessor ==
    /\ HashPayloadUndecodable
       => last.out.err = "UnmarshalJSON" /\ last.out.isNil /\ ~last.out.panic
    /\ TxBlobUndecodable
       => last.out.err = "DecodeResultData" /\ last.out.isNil /\ ~last.out.panic
    /\ BloomPayloadUndecodable => last.out.panic
    /\ \A i \in LogsBlobUndecodable :
        /\ last.out.err # "DecodeResultData" /\ ~last.out.panic
        /\ \A j \in 1..Len(last.out.commits) :
            last.out.commits[j].tx = TxsOf(1)[i]
            => last.out.commits[j].status = 0 /\ last.out.commits[j].logs = <<>>
        /\ (\A k \in 1..TxPerBlock : ~Fails(k))
           => /\ last.out.err = NoErr /\ ~last.out.isNil
              /\ Len(last.out.res) = TxPerBlock
              /\ last.out.res[i] = <<>>

\* GetLogs met a blob that does not decode and returned the logs of the
\* block without an error
C15_Witness ==
    /\ LogsBlobUndecodable # {}
    /\ last.out.err = NoErr /\ ~last.out.isNil
    /\ Len(last.out.res) = TxPerBlock

\* C16: GetRateLimiter returns the limiter registered under the name, and
\* none when the name is unregistered or the registry is nil or empty; no
\* operation of the backend changes the registry.
C16_LookupAndRegistryFrame ==
    /\ [](last.op = "GetRateLimiter"
          => /\ last.e = rateLimiters
             /\ (~rateLimiters.isNil /\ last.arg \in DOMAIN rateLimiters.m)
                => last.out.res = rateLimiters.m[last.arg] /\ last.out.res # NilLimiter
             /\ (rateLimiters.isNil \/ last.arg \notin DOMAIN rateLimiters.m)
                => last.out.res = NilLimiter)
    /\ [][rateLimiters' = rateLimiters]_vars

\* a registered limiter was handed out after the handlers were started and
\* shut down
C16_Witness ==
    /\ last.op = "GetRateLimiter"
    /\ last.out.res # NilLimiter
    /\ closeBloomHandler = "closed"
    /\ \E w \in Workers : wpc[w] = "exited"

\* GetBlockByNumber or HeaderByNumber was called with a height of 0 or below
SentinelCall ==
    last.op \in {"GetBlockByNumber", "HeaderByNumber"} /\ last.arg <= 0

\* the height BlockNumber returns with the answers the call was given
ResolvedHeight == ToInt64(BlockNumber(last.e).res)

\* the places of the queries for a block by its number, in the call's queries
BlockQueries ==
    {i \in 1..Len(last.out.q) : last.out.q[i].kind \in {"GetBlockByNumber", "Block"}}

\* the call handed a block or a header to its caller
Answer == last.out.err = NoErr /\ ~last.out.isNil /\ ~last.out.panic

\* C17 as stated: called with a height of 0 or below, GetBlockByNumber and
\* HeaderByNumber answer with the block at the height BlockNumber returns, and
\* ask neither source for the raw height or its unsigned wrap-around.
C17_SentinelNeverQueriedRaw ==
    SentinelCall
    => /\ Answer => last.out.res.height = ResolvedHeight
       /\ \A i \in BlockQueries :
            last.out.q[i].arg \notin {last.arg, ToUint64(last.arg)}

\* C17 amended: called with a height of 0 or below, GetBlockByNumber and
\* HeaderByNumber answer with the block at the height BlockNumber returns.
\* HeaderByNumber asks both sources at that height only.  GetBlockByNumber
\* first asks the cache for the unsigned wrap-around of the raw height, and
\* only after that miss resolves the sentinel and asks the authoritative
\* source, at the resolved height; it never asks the cache for the resolved
\* height.
C17_SentinelResolvedAfterRawCacheQuery ==
    SentinelCall
    => /\ Answer => last.out.res.height = ResolvedHeight
       /\ last.op = "HeaderByNumber"
          => \A i \in BlockQueries :
                /\ last.out.q[i].src = "cache" => last.out.q[i].arg = ToUint64(ResolvedHeight)
                /\ last.out.q[i].src = "auth" => last.out.q[i].arg = ResolvedHeight
       /\ last.op = "GetBlockByNumber"
          => /\ last.out.q[1].src = "cache" /\ last.out.q[1].kind = "GetBlockByNumber"
             /\ last.out.q[1].arg = ToUint64(last.arg)
             /\ \A i \in BlockQueries \ {1} :
                  last.out.q[i].src = "auth" /\ last.out.q[i].arg = ResolvedHeight

\* GetBlockByNumber(-1) returned the block at the height BlockNumber gives
C17_Witness ==
    /\ last.op = "GetBlockByNumber" /\ last.arg < 0
    /\ Answer
    /\ last.out.res.height = ResolvedHeight
    /\ ResolvedHeight > 0

(***************************************************************************)
(* Claims about the ownership of tasks and the liveness of the pool.       *)
(***************************************************************************)
\* the workers that hold a task
Holders == {w \in Workers : wtask[w] # NoTask}

\* C18: a worker holds a task only between receiving it from the reply
\* channel and writing it back; no two workers hold the same task; a task
\* the caller has received back has every section processed, is held by no
\* worker, and is not changed until the caller drops it.
C18_TaskOwnedBetweenReceiveAndWriteBack ==
    /\ [](\A w \in Workers :
            /\ w \in Holders <=> wpc[w] \in {"loop", "send"}
            /\ w \in Holders => wtask[w].origin = wreq[w]
            /\ wpc[w] = "send" => Len(wtask[w].done) = Len(wtask[w].sections))
    /\ [](\A v, w \in Holders : v # w => wtask[v].origin # wtask[w].origin)
    /\ [](\A m \in Muxes :
            returned[m] # NoTask
            => /\ Len(returned[m].done) = Len(returned[m].sections)
               /\ \A w \in Holders : wtask[w].origin # returned[m].origin)
    /\ [][\A m \in Muxes :
            returned'[m] # returned[m] => (returned[m] = NoTask \/ returned'[m] = NoTask)]_vars
    /\ [][\A w \in Workers :
            (w \in Holders /\ wtask'[w] # wtask[w])
            => \/ wpc[w] = "loop" /\ wtask'[w].origin = wtask[w].origin
               \/ wpc[w] = "send" /\ wtask'[w] = NoTask]_vars

\* a task of two sections is back with its caller while the worker that
\* filled it holds nothing and another worker is filling another task
C18_Witness ==
    /\ \E t \in ReturnedTasks :
        /\ Len(t.sections) >= 2 /\ Len(t.done) = Len(t.sections)
        /\ \E w \in chans[t.origin].takers : wtask[w] = NoTask
    /\ \E w \in Holders : wpc[w] = "loop" /\ Len(wtask[w].done) >= 1

\* C19 as stated: under weak fairness, while no shutdown is broadcast every
\* reply channel offered is eventually received by some worker, and a
\* received request is eventually written back, with more sessions
\* requesting than there are workers.
C19_OfferedIsReceivedUnderWeakFairness ==
    /\ \A m \in PoolMuxes :
        (spc[m] = "offer") ~> (spc[m] # "offer" \/ closeBloomHandler = "closed")
    /\ \A m \in PoolMuxes : (spc[m] = "sendTask") ~> (spc[m] = "alloc")

\* C19 amended: a request that a worker has received is eventually written
\* back under weak fairness, whatever the number of sessions; that every
\* offered reply channel is eventually received needs strong fairness of
\* its reception when more sessions request than there are workers, since
\* the workers may all be busy again and again with the requests of the
\* other sessions.
C19_OfferedIsReceivedUnderStrongFairness ==
    /\ (\A m \in PoolMuxes : SF_vars(AcceptAny(m)))
       => \A m \in PoolMuxes :
            (spc[m] = "offer") ~> (spc[m] # "offer" \/ closeBloomHandler = "closed")
    /\ \A m \in PoolMuxes : (spc[m] = "sendTask") ~> (spc[m] = "alloc")

\* every worker is busy with the request of a session while one more
\* session offers its reply channel, and no shutdown was broadcast
C19_Witness ==
    /\ closeBloomHandler = "open"
    /\ \A w \in Workers : wpc[w] \in {"loop", "send"}
    /\ \E m \in DOMAIN spc : spc[m] = "offer" /\ m > NumWorkers

(***************************************************************************)
(* Claims about the receipts GetLogs writes into the cache.                *)
(***************************************************************************)
\* the loop of GetLogs came to the i-th transaction of the block
LoopReached(i) == LoopEntered /\ \A j \in 1..(i - 1) : ~Fails(j)

\* the i-th transaction missed the cache and its receipt was reconstructed
Reconstructed(i) == LoopReached(i) /\ Miss(i) /\ last.e.txe[i].step = "ok"

\* the cache handed out the receipt of the i-th transaction
Held(i) == LoopReached(i) /\ ~Miss(i)

\* the receipts the call wrote are those of the reconstructed transactions,
\* in their order, each written when the result held the logs of the
\* transactions before it only
WritesAreTheReconstructed ==
    LET cm == last.out.commits
        rec == {i \in 1..TxPerBlock : Reconstructed(i)}
    IN /\ Len(cm) = Cardinality(rec)
       /\ \A j \in 1..Len(cm) :
            /\ \E i \in rec : cm[j].tx = TxsOf(1)[i] /\ cm[j].at = i - 1
            /\ \A k \in 1..Len(cm) : cm[k].tx = cm[j].tx => k = j
            /\ last.out.receipts[cm[j].tx] = [has |-> TRUE, logs |-> cm[j].logs]

\* the cache keeps every receipt the call did not write
OtherReceiptsKept ==
    \A t \in DOMAIN last.rc :
        (\A j \in 1..Len(last.out.commits) : last.out.commits[j].tx # t)
        => last.out.receipts[t] = last.rc[t]

\* the call returned no logs and no error at an unlocatable transaction
StoppedAtUnlocatable ==
    /\ LoopEntered /\ last.out.fail = "Tx"
    /\ last.out.isNil /\ last.out.err = NoErr

\* C20 as stated: GetLogs writes a receipt for exactly the transactions whose
\* receipt missed the cache and was reconstructed, before their logs are
\* added to the result; a receipt the cache holds is left unchanged; and
\* when the call returns no logs because a later transaction is unlocatable,
\* the cache is as it was before the call.
C20_UnlocatableLeavesCacheAsBefore ==
    LoopEntered
    => /\ WritesAreTheReconstructed
       /\ OtherReceiptsKept
       /\ StoppedAtUnlocatable => last.out.receipts = last.rc

\* C20 amended: GetLogs writes a receipt for exactly the transactions whose
\* receipt missed the cache and was reconstructed, before their logs are
\* added to the result; a receipt the cache holds is left unchanged; when
\* the call returns no logs because a later transaction is unlocatable, the
\* receipts of the transactions reconstructed before it stay written, and
\* the cache is as before only when none was.
C20_EarlierReceiptsStayWritten ==
    LoopEntered
    => /\ WritesAreTheReconstructed
       /\ OtherReceiptsKept
       /\ \A i \in 1..TxPerBlock : Held(i) => last.out.receipts[TxsOf(1)[i]] = last.rc[TxsOf(1)[i]]
       /\ StoppedAtUnlocatable
          => /\ \A i \in 1..TxPerBlock :
                  Reconstructed(i) => last.out.receipts[TxsOf(1)[i]].has
             /\ (last.out.receipts = last.rc)
                <=> \A i \in 1..TxPerBlock :
                       Reconstructed(i) => last.rc[TxsOf(1)[i]] = last.out.receipts[TxsOf(1)[i]]

\* the first transaction was reconstructed and its receipt written, the
\* second is unlocatable, and the call returned no logs and no error with the
\* cache changed
C20_Witness ==
    /\ StoppedAtUnlocatable
    /\ Reconstructed(1) /\ Unlocatable(2)
    /\ ~last.rc[TxsOf(1)[1]].has
    /\ last.out.receipts[TxsOf(1)[1]].has
    /\ last.out.receipts # last.rc

(***************************************************************************)
(* Claims about the receipt GetLogs reconstructs.                          *)
(***************************************************************************)
\* the gas used by the transactions of block h at indices lo..hi
RECURSIVE GasSum(_, _, _)
GasSum(h, lo, hi) ==
    IF lo > hi THEN 0 ELSE GasUsed(TxsOf(h)[lo + 1]) + GasSum(h, lo + 1, hi)

\* the receipts GetLogs committed in the call
Committed == IF last.op = "GetLogs" THEN 1..Len(last.out.commits) ELSE {}

\* the answers the call was given for the transaction of the j-th commit
CommitEnv(j) == last.e.txe[last.out.commits[j].index + 1]

\* status and logs of the j-th commit: success exactly when the result is OK
\* and its blob decodes, failure and no logs when the blob does not decode
StatusFromResult(j) ==
    LET cm == last.out.commits[j]
        te == CommitEnv(j)
    IN /\ cm.status = 1 <=> (te.isOK /\ te.blob # "undecodable")
       /\ cm.status \in {0, 1}
       /\ te.blob = "undecodable" => cm.status = 0 /\ cm.logs = <<>>

\* C21 as stated: the cumulative gas of a reconstructed receipt at index
\* i > 0 is the sum of the gas used by the transactions at indices 0..i-1,
\* and the status is success only if the result is OK and its blob decodes.
C21_CumulativeGasIsSumOfPreceding ==
    \A j \in Committed :
        LET cm == last.out.commits[j]
        IN /\ cm.index > 0
              => cm.cumulativeGasUsed = GasSum(TxHeight(cm.tx), 0, cm.index - 1)
           /\ StatusFromResult(j)

\* C21 amended: the cumulative gas of a reconstructed receipt is the gas used
\* by the transaction itself plus, at index i > 0, the gas of the
\* transactions at indices 0..i-1 (the sum over 0..i); the status is success
\* exactly when the result is OK and its blob decodes.
C21_CumulativeGasIncludesOwn ==
    \A j \in Committed :
        LET cm == last.out.commits[j]
        IN /\ cm.cumulativeGasUsed = GasSum(TxHeight(cm.tx), 0, cm.index) % WordMod
           /\ cm.gasUsed = GasUsed(cm.tx)
           /\ cm.index > 0
              => cm.cumulativeGasUsed
                   = (cm.gasUsed + GasSum(TxHeight(cm.tx), 0, cm.index - 1)) % WordMod
           /\ StatusFromResult(j)

\* a receipt at an index above 0 was reconstructed, with a result that is OK
\* and decodes, and one with a blob that does not decode
C21_Witness ==
    /\ \E j \in Committed :
        /\ last.out.commits[j].index > 0 /\ last.out.commits[j].status = 1
        /\ last.out.commits[j].cumulativeGasUsed > last.out.commits[j].gasUsed
    /\ \E j \in Committed :
        CommitEnv(j).blob = "undecodable" /\ CommitEnv(j).isOK /\ last.out.commits[j].status = 0

(***************************************************************************)
(* Claims about a section whose block hash is not resolved.                *)
(***************************************************************************)
\* the sections of returned task t whose hash GetBlockHashByHeight did not
\* resolve
Unresolved(t) == {i \in 1..Len(t.sections) : ~t.done[i].hashOK}

\* C22: in a returned task a section whose section-ending block hash was not
\* resolved has no output: no vector read under the key of the zero hash is
\* stored in its slot, and the task carries an error (the resolution error,
\* or the error of a later step or section that took its place).
C22_UnresolvedSectionStaysEmpty ==
    \A t \in ReturnedTasks :
        \A i \in Unresolved(t) :
            /\ ~t.bitsets[i].set
            /\ t.error # NoTaskErr

\* a task came back with the vector read under the key of the zero hash in
\* the slot of a section whose hash was not resolved
C22_FilledUnderZeroHash ==
    \E t \in ReturnedTasks :
        \E i \in Unresolved(t) :
            /\ t.bitsets[i].set /\ t.bitsets[i].hash = ZeroHash
            /\ t.error = TaskErr("hash", i)

(***************************************************************************)
(* Claims about the export's goroutine pool.                               *)
(***************************************************************************)
\* the writers between addGoroutine and finishGoroutine
Running == {w \in Writers : epc[w] \in {"write", "recv"}}

\* the writers that hold a slot of the pool, up to their globalWG.Done()
SlotHolders == {w \in Writers : epc[w] \in {"wgAdd", "write", "recv", "wgDone"}}

\* the pool bounds the writers, and the wait-group counter is never negative
\* and is zero when no writer holds a slot
PoolBoundsWriters ==
    /\ goroutinePool.made
       => /\ goroutinePool.cap = (goroutinePool.cpus - 1) * SlotsPerCPU
          /\ goroutinePool.len <= goroutinePool.cap
          /\ Cardinality(Running) <= goroutinePool.cap
    /\ globalWG >= 0
    /\ SlotHolders = {} => globalWG = 0

\* C23: at most (NumCPU-1)*64 writers are between addGoroutine and
\* finishGoroutine, the wait-group counter is never negative and is zero when
\* no writer holds a slot, and for every CPU count from 1 on every writer
\* that calls addGoroutine eventually gets a slot.
C23_EveryWriterGetsASlot ==
    /\ []PoolBoundsWriters
    /\ \A w \in Writers : (epc[w] = "send") ~> (epc[w] # "send")

\* on one CPU the pool has no slot and every writer is blocked in addGoroutine
C23_AllBlockedOnOneCPU ==
    /\ goroutinePool.made /\ goroutinePool.cpus = 1 /\ goroutinePool.cap = 0
    /\ \A w \in Writers : epc[w] = "send"
    /\ globalWG = 0

\* with a CPU count above 1 every writer that calls addGoroutine gets a slot
C23_SlotOnMoreThanOneCPU ==
    /\ []PoolBoundsWriters
    /\ \A w \in Writers :
        (epc[w] = "send" /\ goroutinePool.cpus > 1) ~> (epc[w] # "send")

====
